---------------------------- MODULE Spec2Model ----------------------------
(***************************************************************************)
(* A model of the signal generation pipeline of ZBOT (Barashor Trading     *)
(* System): the Series Cache (monitoring.py), Data Acquisition with its    *)
(* bounded worker pool (api_client.py), the Indicator Engine, the Signal   *)
(* Classifier and the Pipeline Orchestrator (analysis.py).                 *)
(*                                                                         *)
(* Numbers.  The code computes in floating point; the model computes in    *)
(* fixed point, every quantity an integer count of a fixed unit:           *)
(*   z_score         hundredths            (2.0   is 200)                  *)
(*   rsi             hundredths            (70    is 7000)                 *)
(*   macd_histogram  ten-thousandths       (0.001 is 10)                   *)
(*   volume_ratio    hundredths            (1.5   is 150)                  *)
(*   precision       tenths                (60.0  is 600)                  *)
(*   close, volume   whole units                                           *)
(*   sma_50          hundredths                                            *)
(*   volume_sma      hundredths                                            *)
(*   time            seconds                                               *)
(*   ema, macd_line  ten-thousandths, each division rounded down           *)
(* In these units min(|z|/3, 1) * 30 is exactly min(|z|, 300).             *)
(*                                                                         *)
(* Each component has its own specification over the one set of variables; *)
(* a specification leaves the variables of the other components at their   *)
(* initial values.                                                         *)
(***************************************************************************)
EXTENDS Integers, Sequences, FiniteSets, TLC

VARIABLES
    \* Signal Classifier: the arguments of one generate_signal call and its result
    cls_args, cls_result, cls_pc,
    \* Series Cache (CacheManager): the two dicts, the wall clock, the last
    \* call's return, and (history) the latest set() of every key
    cache, timeouts, now, cache_ret, last_set,
    \* Data Acquisition (APIClient.get_all_futures_data): what the wrapped calls
    \* answer for every symbol, the symbol list, every submitted task's state,
    \* the list being collected, the call's position and its return value
    upstream, symbols, task, futures_data, acq_pc, acq_ret,
    \* Pipeline Orchestrator (TradingAnalyzer.analyze_all_futures): position, loop
    \* index, the list being built and the return value; the external store: how
    \* save_signal ends for each symbol's decision, and the rows it holds
    eval_pc, eval_i, analysis_results, eval_ret, store_answer, stored,
    \* Indicator Engine (TradingAnalyzer.analyze_symbol): the candle series of one
    \* call, the call's position, the indicator values it computed (its local
    \* variables) and its return value
    series, ana_pc, ana_locals, ana_result,
    \* Two analyze_all_futures calls in a row over the cached fetches: what the
    \* exchange answers now, whether it changed after the first call, the calls
    \* finished, the position and symbol index of the running call, and
    \* (history) per call and symbol: the indicator values computed, the instant
    \* of the series lookup and whether it was answered from the cache
    exch, exch_moved, rep_call, rep_pc, rep_i, snaps, look_at, from_cache,
    \* APIClient.get_all_futures_symbols: what the instruments request comes
    \* back with, the call's position and its return value
    listing, list_pc, list_ret,
    \* monitoring.cache_result: two calls of wrapped functions as they are
    \* written, the position, and the cache key the wrapper derives for each
    calls, key_pc, cache_keys,
    \* SystemHealthMonitor and the calls its probes make
    health_status, alerts, probes, probe_call, probe_ret,
    \* one call of an indicator function
    ind_call, ind_pc, ind_ret,
    \* PerformanceMonitor, its lock and the threads recording into it
    metrics, metrics_lock, recorder, recorded,
    \* the threads inside cache_result's wrapper and the upstream they fetch from
    wrapped, upstream_up, contacts

cls_vars == <<cls_args, cls_result, cls_pc>>

cache_vars == <<cache, timeouts, now, cache_ret, last_set>>

acq_vars == <<upstream, symbols, task, futures_data, acq_pc, acq_ret>>

eval_vars == <<eval_pc, eval_i, analysis_results, eval_ret, store_answer, stored>>

ana_vars == <<series, ana_pc, ana_locals, ana_result>>

rep_vars == <<exch, exch_moved, rep_call, rep_pc, rep_i, snaps, look_at, from_cache>>

list_vars == <<listing, list_pc, list_ret>>

key_vars == <<calls, key_pc, cache_keys>>
health_vars == <<health_status, alerts, probes, probe_call, probe_ret>>
ind_vars == <<ind_call, ind_pc, ind_ret>>
metric_vars == <<metrics, metrics_lock, recorder, recorded>>
wrap_vars == <<wrapped, upstream_up, contacts>>

vars == <<cls_vars, cache_vars, acq_vars, eval_vars, ana_vars, rep_vars, list_vars, key_vars,
          health_vars, ind_vars, metric_vars, wrap_vars>>

Abs(x) == IF x < 0 THEN -x ELSE x

Min(a, b) == IF a < b THEN a ELSE b

Max(a, b) == IF a > b THEN a ELSE b

(***************************************************************************)
(* config.py: the strategy's thresholds, in the units above.               *)
(***************************************************************************)
Z_SCORE_THRESHOLD == 200

RSI_OVERSOLD == 3000

RSI_OVERBOUGHT == 7000

(***************************************************************************)
(* Signal Classifier: TradingAnalyzer.generate_signal and                  *)
(* TradingAnalyzer._calculate_signal_precision.                            *)
(***************************************************************************)

\* Python's None as the result of generate_signal / analyze_symbol.
NoSignal == [direction |-> "None", strength |-> "None", precision |-> 0]

\* A plausible slip: the MACD contribution is left out.
CalculateSignalPrecisionNoMacdTier(z_score, rsi, macd_histogram, volume_ratio) ==
    Min(500 + Min(Abs(z_score), 300)
            + (IF rsi < 2500 \/ rsi > 7500 THEN 200
               ELSE IF rsi < 3000 \/ rsi > 7000 THEN 150
               ELSE IF rsi < 4000 \/ rsi > 6000 THEN 100 ELSE 0)
            + (IF volume_ratio > 150 THEN 150
               ELSE IF volume_ratio > 120 THEN 100 ELSE 0),
        1000)

\* A plausible slip: the RSI tiers take their bounds in (<= 25, >= 75 and so on).
CalculateSignalPrecisionRsiInclusive(z_score, rsi, macd_histogram, volume_ratio) ==
    Min(500 + Min(Abs(z_score), 300)
            + (IF rsi <= 2500 \/ rsi >= 7500 THEN 200
               ELSE IF rsi <= 3000 \/ rsi >= 7000 THEN 150
               ELSE IF rsi <= 4000 \/ rsi >= 6000 THEN 100 ELSE 0)
            + (IF Abs(macd_histogram) > 20 THEN 150
               ELSE IF Abs(macd_histogram) > 10 THEN 100 ELSE 0)
            + (IF volume_ratio > 150 THEN 150
               ELSE IF volume_ratio > 120 THEN 100 ELSE 0),
        1000)

\* A plausible slip: the final min(precision, 100.0) is forgotten.
CalculateSignalPrecisionUncapped(z_score, rsi, macd_histogram, volume_ratio) ==
    500 + Min(Abs(z_score), 300)
        + (IF rsi < 2500 \/ rsi > 7500 THEN 200
           ELSE IF rsi < 3000 \/ rsi > 7000 THEN 150
           ELSE IF rsi < 4000 \/ rsi > 6000 THEN 100 ELSE 0)
        + (IF Abs(macd_histogram) > 20 THEN 150
           ELSE IF Abs(macd_histogram) > 10 THEN 100 ELSE 0)
        + (IF volume_ratio > 150 THEN 150
           ELSE IF volume_ratio > 120 THEN 100 ELSE 0)

\* _calculate_signal_precision: base 50, four additive contributions, capped at 100.
CalculateSignalPrecision(z_score, rsi, macd_histogram, volume_ratio) ==
    LET zc == Min(Abs(z_score), 300)
        rc == IF rsi < 2500 \/ rsi > 7500 THEN 200
              ELSE IF rsi < 3000 \/ rsi > 7000 THEN 150
              ELSE IF rsi < 4000 \/ rsi > 6000 THEN 100
              ELSE 0
        mc == IF Abs(macd_histogram) > 20 THEN 150
              ELSE IF Abs(macd_histogram) > 10 THEN 100
              ELSE 0
        vc == IF volume_ratio > 150 THEN 150
              ELSE IF volume_ratio > 120 THEN 100
              ELSE 0
    IN  Min(500 + zc + rc + mc + vc, 1000)

\* A plausible slip: the RSI rule is consulted before the z-score rule.
SignalDirectionRsiFirst(z_score, rsi, macd_histogram) ==
    IF rsi > RSI_OVERBOUGHT THEN "SELL"
    ELSE IF rsi < RSI_OVERSOLD THEN "BUY"
    ELSE IF z_score > Z_SCORE_THRESHOLD THEN "SELL"
    ELSE IF z_score < -Z_SCORE_THRESHOLD THEN "BUY"
    ELSE IF macd_histogram < -10 THEN "SELL"
    ELSE IF macd_histogram > 10 THEN "BUY"
    ELSE "None"

\* generate_signal, lines 120-146: z-score first, then RSI, then the MACD histogram.
SignalDirection(z_score, rsi, macd_histogram) ==
    LET byZ == IF z_score > Z_SCORE_THRESHOLD THEN "SELL"
               ELSE IF z_score < -Z_SCORE_THRESHOLD THEN "BUY"
               ELSE "None"
        byRsi == IF byZ # "None" THEN byZ
                 ELSE IF rsi > RSI_OVERBOUGHT THEN "SELL"
                 ELSE IF rsi < RSI_OVERSOLD THEN "BUY"
                 ELSE "None"
        byMacd == IF byRsi # "None" THEN byRsi
                  ELSE IF macd_histogram < -10 THEN "SELL"
                  ELSE IF macd_histogram > 10 THEN "BUY"
                  ELSE "None"
    IN  byMacd

\* A plausible slip: the RSI confirmation is paired with the wrong direction.
SignalStrengthRsiSwapped(signal_direction, rsi, macd_histogram, volume_ratio) ==
    LET afterRsi == IF rsi > RSI_OVERBOUGHT /\ signal_direction = "BUY" THEN "STRONG"
                    ELSE IF rsi < RSI_OVERSOLD /\ signal_direction = "SELL" THEN "STRONG"
                    ELSE "WEAK"
        afterMacd == IF macd_histogram > 0 /\ signal_direction = "BUY" THEN "STRONG"
                     ELSE IF macd_histogram < 0 /\ signal_direction = "SELL" THEN "STRONG"
                     ELSE afterRsi
    IN  IF volume_ratio > 150
        THEN IF afterMacd = "WEAK" THEN "MODERATE"
             ELSE IF afterMacd = "MODERATE" THEN "STRONG"
             ELSE afterMacd
        ELSE afterMacd

\* A plausible slip: the MACD test ends in an else that puts WEAK back.
SignalStrengthMacdResets(signal_direction, rsi, macd_histogram, volume_ratio) ==
    LET afterMacd == IF macd_histogram > 0 /\ signal_direction = "BUY" THEN "STRONG"
                     ELSE IF macd_histogram < 0 /\ signal_direction = "SELL" THEN "STRONG"
                     ELSE "WEAK"
    IN  IF volume_ratio > 150
        THEN IF afterMacd = "WEAK" THEN "MODERATE"
             ELSE IF afterMacd = "MODERATE" THEN "STRONG"
             ELSE afterMacd
        ELSE afterMacd

\* A plausible slip: the volume test is written the wrong way round.
SignalStrengthVolumeInverted(signal_direction, rsi, macd_histogram, volume_ratio) ==
    LET afterRsi == IF rsi > RSI_OVERBOUGHT /\ signal_direction = "SELL" THEN "STRONG"
                    ELSE IF rsi < RSI_OVERSOLD /\ signal_direction = "BUY" THEN "STRONG"
                    ELSE "WEAK"
        afterMacd == IF macd_histogram > 0 /\ signal_direction = "BUY" THEN "STRONG"
                     ELSE IF macd_histogram < 0 /\ signal_direction = "SELL" THEN "STRONG"
                     ELSE afterRsi
    IN  IF volume_ratio < 150
        THEN IF afterMacd = "WEAK" THEN "MODERATE"
             ELSE IF afterMacd = "MODERATE" THEN "STRONG"
             ELSE afterMacd
        ELSE afterMacd

\* generate_signal, lines 148-166: starts WEAK; RSI and MACD confirmation; volume step.
SignalStrength(signal_direction, rsi, macd_histogram, volume_ratio) ==
    LET afterRsi == IF rsi > RSI_OVERBOUGHT /\ signal_direction = "SELL" THEN "STRONG"
                    ELSE IF rsi < RSI_OVERSOLD /\ signal_direction = "BUY" THEN "STRONG"
                    ELSE "WEAK"
        afterMacd == IF macd_histogram > 0 /\ signal_direction = "BUY" THEN "STRONG"
                     ELSE IF macd_histogram < 0 /\ signal_direction = "SELL" THEN "STRONG"
                     ELSE afterRsi
    IN  IF volume_ratio > 150
        THEN IF afterMacd = "WEAK" THEN "MODERATE"
             ELSE IF afterMacd = "MODERATE" THEN "STRONG"
             ELSE afterMacd
        ELSE afterMacd

\* generate_signal: no direction -> None; precision below 60 -> None.
GenerateSignal(z_score, rsi, macd_histogram, volume_ratio) ==
    LET signal_direction == SignalDirection(z_score, rsi, macd_histogram)
        precision == CalculateSignalPrecision(z_score, rsi, macd_histogram, volume_ratio)
    IN  IF signal_direction = "None" THEN NoSignal
        ELSE IF precision < 600 THEN NoSignal
        ELSE [direction |-> signal_direction,
              strength  |-> SignalStrength(signal_direction, rsi, macd_histogram,
                                           volume_ratio),
              precision |-> precision]

(***************************************************************************)
(* The classifier as a state machine: one call on arguments drawn from     *)
(* grids that hold every threshold of the code, its two neighbours and the *)
(* extremes.                                                               *)
(***************************************************************************)
ZMax == 450

MacdMax == 30

VolMax == 200

ZGrid == {-ZMax, -300, -201, -200, -199, -100, -50, 0, 50, 100, 199, 200, 201, 300, ZMax}

RsiGrid == {0, 2499, 2500, 2999, 3000, 3001, 3999, 4000, 5000, 6000, 6001,
            6999, 7000, 7001, 7500, 7501, 10000}

MacdGrid == {-MacdMax, -21, -20, -11, -10, -1, 0, 1, 10, 11, 20, 21, MacdMax}

VolGrid == {50, 100, 120, 121, 150, 151, VolMax}

\* The classifier at rest, for the specifications of the other components.
ClsIdle ==
    /\ cls_args = [z_score |-> 0, rsi |-> 5000, macd_histogram |-> 0, volume_ratio |-> 100]
    /\ cls_result = NoSignal
    /\ cls_pc = "idle"

ClsInit ==
    /\ cls_args \in [z_score : ZGrid, rsi : RsiGrid,
                     macd_histogram : MacdGrid, volume_ratio : VolGrid]
    /\ cls_result = NoSignal
    /\ cls_pc = "call"

Classify ==
    /\ cls_pc = "call"
    /\ cls_result' = GenerateSignal(cls_args.z_score, cls_args.rsi,
                                    cls_args.macd_histogram, cls_args.volume_ratio)
    /\ cls_pc' = "returned"
    /\ UNCHANGED <<cls_args, ana_vars, list_vars, rep_vars, cache_vars, acq_vars, eval_vars, key_vars, health_vars, ind_vars, metric_vars, wrap_vars>>

ClsNext == Classify

(***************************************************************************)
(* Indicator Engine: TradingAnalyzer.calculate_* and analyze_symbol.       *)
(* A series is a record of two equally long sequences, close and volume,   *)
(* and the size of the unit its closes are counted in: one unit of close   *)
(* is tick_num / tick_den of the quote currency.  The z-score and the RSI  *)
(* are ratios of closes and do not depend on the unit; the moving averages *)
(* are converted.                                                          *)
(***************************************************************************)

\* get_klines_data(..., limit=100): the number of candles one fetch asks for.
KlineLimit == 100

MaxBase == 150

MaxJump == 5

\* s[1] + ... + s[k]
RECURSIVE SumTo(_, _)
SumTo(s, k) == IF k = 0 THEN 0 ELSE s[k] + SumTo(s, k - 1)

\* rolling(window=period) at the last row: the last period values.
LastWindow(s, period) == SubSeq(s, Len(s) - period + 1, Len(s))

\* The integer square root; the arguments here stay below 426 * 426.
ISqrt(x) == CHOOSE r \in 0..425 : r * r <= x /\ (r + 1) * (r + 1) > x

\* calculate_z_score: 0.0 under period values or when the rolling std is 0, else
\* (last - mean) / std with the sample std (ddof = 1).  With d = period * last -
\* sum and V the sum of the squares of period * x - sum over the window, std is
\* 0 exactly when V is 0 and z * z = (period - 1) * d * d / V.  The result is
\* z in hundredths, rounded toward zero; the quotient is taken in stages.
CalculateZScore(prices, period) ==
    IF Len(prices) < period THEN 0
    ELSE LET w == LastWindow(prices, period)
             sum == SumTo(w, period)
             d == period * w[period] - sum
             V == SumTo([i \in 1..period |-> (period * w[i] - sum) * (period * w[i] - sum)],
                        period)
         IN  IF V = 0 THEN 0
             ELSE LET num == (period - 1) * d * d
                      q0 == num \div V
                      r0 == num % V
                      q1 == (100 * r0) \div V
                      r1 == (100 * r0) % V
                      q2 == (100 * r1) \div V
                      mag == ISqrt(10000 * q0 + 100 * q1 + q2)
                  IN  IF d < 0 THEN -mag ELSE mag

\* calculate_sma, in hundredths: the mean of all values under period values
\* (0.0 for none), else the mean of the last period values.
CalculateSma(prices, period) ==
    IF Len(prices) < period
    THEN IF Len(prices) > 0 THEN (100 * SumTo(prices, Len(prices))) \div Len(prices) ELSE 0
    ELSE (100 * SumTo(LastWindow(prices, period), period)) \div period

\* A plausible slip: the zero test made on the mean gain instead of the mean loss.
CalculateRsiZeroGain(prices, period) ==
    IF Len(prices) < period + 1 THEN 5000
    ELSE LET n == Len(prices)
             delta == [i \in 1..period |-> prices[n - period + i] - prices[n - period + i - 1]]
             gain == SumTo([i \in 1..period |-> IF delta[i] > 0 THEN delta[i] ELSE 0], period)
             loss == SumTo([i \in 1..period |-> IF delta[i] < 0 THEN -delta[i] ELSE 0], period)
         IN  IF gain = 0 THEN 10000
             ELSE (10000 * gain) \div (gain + loss)

\* calculate_rsi, in hundredths: 50.0 under period + 1 values; 100.0 when the
\* mean loss over the last period differences is 0; else 100 - 100 / (1 + rs),
\* which is 100 * gain / (gain + loss).
CalculateRsi(prices, period) ==
    IF Len(prices) < period + 1 THEN 5000
    ELSE LET n == Len(prices)
             delta == [i \in 1..period |-> prices[n - period + i] - prices[n - period + i - 1]]
             gain == SumTo([i \in 1..period |-> IF delta[i] > 0 THEN delta[i] ELSE 0], period)
             loss == SumTo([i \in 1..period |-> IF delta[i] < 0 THEN -delta[i] ELSE 0], period)
         IN  IF loss = 0 THEN 10000
             ELSE (10000 * gain) \div (gain + loss)

\* num / den in ten-thousandths, for den in ten-thousandths: num * 10000 \div den
\* taken in two stages.
FixDiv(num, den) ==
    (num \div den) * 10000 + ((num % den) * 10000) \div den

\* ewm(span=span).mean() one row on (adjust=True): the weighted sum and the sum
\* of the weights both decay by 1 - alpha, alpha = 2 / (span + 1), and take in
\* the new value with weight 1.
EwmNum(prev, value, span) == value + prev - (2 * prev) \div (span + 1)

EwmDen(prev, span) == 10000 + prev - (2 * prev) \div (span + 1)

MacdStart == [fn |-> 0, fd |-> 0, sn |-> 0, sd |-> 0, gn |-> 0, gd |-> 0,
              macd_line |-> 0, signal_line |-> 0]

\* One more row of ema_fast, ema_slow, macd_line and signal_line; y is the close
\* of the row in ten-thousandths.
MacdStep(prev, y, fast, slow, signal) ==
    LET fn == EwmNum(prev.fn, y, fast)
        fd == EwmDen(prev.fd, fast)
        sn == EwmNum(prev.sn, y, slow)
        sd == EwmDen(prev.sd, slow)
        line == FixDiv(fn, fd) - FixDiv(sn, sd)
        gn == EwmNum(prev.gn, line, signal)
        gd == EwmDen(prev.gd, signal)
    IN  [fn |-> fn, fd |-> fd, sn |-> sn, sd |-> sd, gn |-> gn, gd |-> gd,
         macd_line |-> line, signal_line |-> FixDiv(gn, gd)]

\* The rows from row t on, rows being the row before t.  The sum of the weights
\* is never negative; reading it here has each row computed before the next.
RECURSIVE MacdRows(_, _, _, _, _, _)
MacdRows(prices, t, rows, fast, slow, signal) ==
    IF rows.fd >= 0 /\ t > Len(prices) THEN rows
    ELSE MacdRows(prices, t + 1,
                  MacdStep(rows, prices[t], fast, slow, signal),
                  fast, slow, signal)

\* calculate_macd: (0.0, 0.0, 0.0) under slow values, else the last row of
\* macd_line, signal_line and their difference; prices in ten-thousandths.
CalculateMacd(prices, fast, slow, signal) ==
    IF Len(prices) < slow
    THEN [macd_line |-> 0, signal_line |-> 0, histogram |-> 0]
    ELSE LET last == MacdRows(prices, 1, MacdStart, fast, slow, signal)
         IN  [macd_line |-> last.macd_line, signal_line |-> last.signal_line,
              histogram |-> last.macd_line - last.signal_line]

\* calculate_volume_sma, times period (the sum the mean is taken from).
CalculateVolumeSma(volumes, period) ==
    IF Len(volumes) < period
    THEN IF Len(volumes) > 0 THEN (period * SumTo(volumes, Len(volumes))) \div Len(volumes) ELSE 0
    ELSE SumTo(LastWindow(volumes, period), period)

\* analyze_symbol returning None.
NoResult == [valid |-> FALSE]

NoLocals == [z_score |-> 0, sma_50 |-> 0, rsi |-> 0, macd_line |-> 0, macd_signal |-> 0,
             macd_histogram |-> 0, volume_sma |-> 0, volume_ratio |-> 0]

\* The closes in ten-thousandths of the quote currency, relative to the first
\* close (a weighted mean moves with its values, so the differences of two
\* weighted means of the closes are those of the relative closes).
RelativeCloses(data) ==
    [t \in 1..Len(data.close) |->
        (10000 * (data.close[t] - data.close[1]) * data.tick_num) \div data.tick_den]

\* The indicator values analyze_symbol computes before it calls generate_signal;
\* volume_ratio is current_volume / volume_sma, or 1.0 when volume_sma is not
\* positive.
Indicators(data) ==
    LET prices == data.close
        volumes == data.volume
        volume_sma == CalculateVolumeSma(volumes, 20)
        current_volume == IF Len(volumes) > 0 THEN volumes[Len(volumes)] ELSE 0
        macd == CalculateMacd(RelativeCloses(data), 12, 26, 9)
    IN  [z_score |-> CalculateZScore(prices, 20),
         sma_50 |-> (CalculateSma(prices, 50) * data.tick_num) \div data.tick_den,
         rsi |-> CalculateRsi(prices, 14),
         macd_line |-> macd.macd_line,
         macd_signal |-> macd.signal_line,
         macd_histogram |-> macd.histogram,
         volume_sma |-> 5 * volume_sma,
         volume_ratio |-> IF volume_sma > 0
                          THEN (100 * current_volume * 20) \div volume_sma
                          ELSE 100]

\* analyze_symbol's return value, given the indicator values: None when
\* generate_signal returns None, else the analysis result.
AnalysisResult(ind) ==
    LET signal_info == GenerateSignal(ind.z_score, ind.rsi, ind.macd_histogram,
                                      ind.volume_ratio)
    IN  IF signal_info = NoSignal THEN NoResult
        ELSE [valid |-> TRUE, z_score |-> ind.z_score, sma_50 |-> ind.sma_50,
              rsi |-> ind.rsi, macd_histogram |-> ind.macd_histogram,
              volume_ratio |-> ind.volume_ratio, signal |-> signal_info.direction,
              strength |-> signal_info.strength, precision |-> signal_info.precision]

\* The series one call is given: a length, a shape of the closes and a profile
\* of the volumes.
Lengths == {49, 50, KlineLimit}

Shapes == {"flat", "rising", "falling", "zigzag", "spike", "dip"}

VolumeProfiles == {"steady", "surge", "none"}

BaseLevels == {100, MaxBase}

Closes(shape, base, n) ==
    [t \in 1..n |->
        CASE shape = "flat" -> base
          [] shape = "rising" -> base + t
          [] shape = "falling" -> base + n - t
          [] shape = "zigzag" -> base + (t % 2)
          [] shape = "spike" -> IF t = n THEN base + MaxJump ELSE base
          [] shape = "dip" -> IF t = n THEN base - MaxJump ELSE base]

Volumes(profile, n) ==
    [t \in 1..n |->
        CASE profile = "steady" -> 10
          [] profile = "surge" -> IF t = n THEN 30 ELSE 10
          [] profile = "none" -> 0]

\* The spec's scenario: 60 closes falling linearly from 100 to 50 (118 down to
\* 59 in units of 50/59), the final volume twice the mean of the last 20
\* volumes, itself included: 19 against nineteen 9s has the mean 9.5.
FallingScenario ==
    [close |-> [t \in 1..60 |-> 119 - t],
     volume |-> [t \in 1..60 |-> IF t = 60 THEN 19 ELSE 9],
     tick_num |-> 50, tick_den |-> 59]

SeriesFamily ==
    {[close |-> Closes(shape, base, n), volume |-> Volumes(profile, n),
      tick_num |-> 1, tick_den |-> 1] :
        shape \in Shapes, base \in BaseLevels, n \in Lengths, profile \in VolumeProfiles}
    \cup {FallingScenario}

AnaIdle ==
    /\ series = [close |-> <<>>, volume |-> <<>>, tick_num |-> 1, tick_den |-> 1]
    /\ ana_pc = "idle"
    /\ ana_locals = NoLocals
    /\ ana_result = NoResult

AnaInit ==
    /\ series \in SeriesFamily
    /\ ana_pc = "call"
    /\ ana_locals = NoLocals
    /\ ana_result = NoResult

\* analyze_symbol(symbol, data, current_price): None under 50 candles, else
\* the indicators, generate_signal and the result.
AnalyzeSymbol ==
    /\ ana_pc = "call"
    /\ IF Len(series.close) < 50
       THEN /\ ana_result' = NoResult
            /\ UNCHANGED ana_locals
       ELSE /\ ana_locals' = Indicators(series)
            /\ ana_result' = AnalysisResult(Indicators(series))
    /\ ana_pc' = "returned"
    /\ UNCHANGED <<series, cls_vars, cache_vars, acq_vars, eval_vars, key_vars, health_vars, ind_vars, metric_vars, wrap_vars, rep_vars, list_vars>>

AnaNext == AnalyzeSymbol


(***************************************************************************)
(* Series Cache: monitoring.CacheManager.  A dict is a function on the set *)
(* of its keys.  Every method body runs under self.lock, so each is one    *)
(* atomic step; datetime.now() is read inside the lock.                    *)
(***************************************************************************)
NumValues == 1

MaxTtl == 2

MaxTime == 4

\* CacheManager.__init__(default_timeout=300)
default_timeout == 300

\* Two cache keys (the wrapper's "<function name>:<hash of the arguments>").
Keys == {"get_klines_data:1", "get_current_price:1"}

\* Python's None as a value; the wrapper stores None results too.
None == 0

CacheValues == 0..NumValues

\* The timeout argument of set(): 0 stands for both None and 0 (both falsy).
TtlArgs == 0..MaxTtl

Without(d, key) == [k \in DOMAIN d \ {key} |-> d[k]]

With(d, key, v) == [k \in DOMAIN d \cup {key} |-> IF k = key THEN v ELSE d[k]]

\* The return of a call that returns nothing (set, clear, clear_expired).
NoReturn == [op |-> "none", key |-> "", value |-> None, evicted |-> FALSE]

CacheEmpty ==
    /\ cache = <<>>
    /\ timeouts = <<>>
    /\ cache_ret = NoReturn
    /\ last_set = <<>>

CacheInit ==
    /\ CacheEmpty
    /\ now = 0

\* The cache at rest, for the specifications of the other components.
CacheIdle ==
    /\ CacheEmpty
    /\ now = 0

\* A plausible slip: the expiry instant itself still counts as live (<=).
CacheGetInclusive(key) ==
    /\ IF key \in DOMAIN cache /\ key \in DOMAIN timeouts
       THEN IF now <= timeouts[key]
            THEN /\ cache_ret' = [op |-> "get", key |-> key, value |-> cache[key],
                                  evicted |-> FALSE]
                 /\ UNCHANGED <<cache, timeouts>>
            ELSE /\ cache' = Without(cache, key)
                 /\ timeouts' = Without(timeouts, key)
                 /\ cache_ret' = [op |-> "get", key |-> key, value |-> None,
                                  evicted |-> TRUE]
       ELSE /\ cache_ret' = [op |-> "get", key |-> key, value |-> None,
                             evicted |-> FALSE]
            /\ UNCHANGED <<cache, timeouts>>
    /\ UNCHANGED <<now, last_set, cls_vars, ana_vars, list_vars, rep_vars, acq_vars, eval_vars, key_vars, health_vars, ind_vars, metric_vars, wrap_vars>>

\* CacheManager.get
CacheGet(key) ==
    /\ IF key \in DOMAIN cache /\ key \in DOMAIN timeouts
       THEN IF now < timeouts[key]
            THEN /\ cache_ret' = [op |-> "get", key |-> key, value |-> cache[key],
                                  evicted |-> FALSE]
                 /\ UNCHANGED <<cache, timeouts>>
            ELSE /\ cache' = Without(cache, key)
                 /\ timeouts' = Without(timeouts, key)
                 /\ cache_ret' = [op |-> "get", key |-> key, value |-> None,
                                  evicted |-> TRUE]
       ELSE /\ cache_ret' = [op |-> "get", key |-> key, value |-> None,
                             evicted |-> FALSE]
            /\ UNCHANGED <<cache, timeouts>>
    /\ UNCHANGED <<now, last_set, cls_vars, ana_vars, list_vars, rep_vars, acq_vars, eval_vars, key_vars, health_vars, ind_vars, metric_vars, wrap_vars>>

\* CacheManager.set: expiry = now + (timeout or default_timeout)
CacheSet(key, value, timeout) ==
    LET expiry == now + (IF timeout = 0 THEN default_timeout ELSE timeout)
    IN  /\ cache' = With(cache, key, value)
        /\ timeouts' = With(timeouts, key, expiry)
        /\ last_set' = With(last_set, key, [value |-> value, expiry |-> expiry])
        /\ cache_ret' = NoReturn
        /\ UNCHANGED <<now, cls_vars, ana_vars, list_vars, rep_vars, acq_vars, eval_vars, key_vars, health_vars, ind_vars, metric_vars, wrap_vars>>

\* CacheManager.clear
CacheClear ==
    /\ cache' = <<>>
    /\ timeouts' = <<>>
    /\ cache_ret' = NoReturn
    /\ UNCHANGED <<now, last_set, cls_vars, ana_vars, list_vars, rep_vars, acq_vars, eval_vars, key_vars, health_vars, ind_vars, metric_vars, wrap_vars>>

\* A plausible slip: clear_expired drops the expiry instants and keeps the values.
CacheClearExpiredKeepsValues ==
    LET expired_keys == {k \in DOMAIN timeouts : now >= timeouts[k]}
    IN  /\ timeouts' = [k \in DOMAIN timeouts \ expired_keys |-> timeouts[k]]
        /\ cache_ret' = NoReturn
        /\ UNCHANGED <<cache, now, last_set, cls_vars, ana_vars, list_vars, rep_vars, acq_vars,
                       eval_vars, key_vars, health_vars, ind_vars, metric_vars, wrap_vars>>

\* CacheManager.clear_expired
CacheClearExpired ==
    LET expired_keys == {k \in DOMAIN timeouts : now >= timeouts[k]}
    IN  /\ cache' = [k \in DOMAIN cache \ expired_keys |-> cache[k]]
        /\ timeouts' = [k \in DOMAIN timeouts \ expired_keys |-> timeouts[k]]
        /\ cache_ret' = NoReturn
        /\ UNCHANGED <<now, last_set, cls_vars, ana_vars, list_vars, rep_vars, acq_vars, eval_vars, key_vars, health_vars, ind_vars, metric_vars, wrap_vars>>

\* CacheManager.get_stats: the number of values and the number of expiry
\* instants that are at or before now.
CacheGetStats ==
    /\ cache_ret' = [op |-> "get_stats", key |-> "", value |-> None, evicted |-> FALSE,
                     total_entries |-> Cardinality(DOMAIN cache),
                     expired_entries |->
                         Cardinality({k \in DOMAIN timeouts : now >= timeouts[k]})]
    /\ UNCHANGED <<cache, timeouts, now, last_set, cls_vars, ana_vars, list_vars, rep_vars,
                   acq_vars, eval_vars, key_vars, health_vars, ind_vars, metric_vars, wrap_vars>>

\* api_routes.clear_cache: POST /monitoring/cache/clear calls
\* cleanup_expired_cache(), which calls cache_manager.clear_expired(), and
\* answers success.
ClearCacheRoute ==
    LET expired_keys == {k \in DOMAIN timeouts : now >= timeouts[k]}
    IN  /\ cache' = [k \in DOMAIN cache \ expired_keys |-> cache[k]]
        /\ timeouts' = [k \in DOMAIN timeouts \ expired_keys |-> timeouts[k]]
        /\ cache_ret' = [op |-> "clear_cache", key |-> "", value |-> None,
                         evicted |-> FALSE, success |-> TRUE]
        /\ UNCHANGED <<now, last_set, cls_vars, ana_vars, list_vars, rep_vars, acq_vars,
                       eval_vars, key_vars, health_vars, ind_vars, metric_vars, wrap_vars>>

\* Time passes between calls (datetime.now() advances).
Tick ==
    /\ now < MaxTime
    /\ now' = now + 1
    /\ UNCHANGED <<cache, timeouts, cache_ret, last_set, cls_vars, ana_vars, list_vars, rep_vars, acq_vars, eval_vars, key_vars, health_vars, ind_vars, metric_vars, wrap_vars>>

CacheNext ==
    \/ \E key \in Keys : CacheGet(key)
    \/ \E key \in Keys, value \in CacheValues, timeout \in TtlArgs :
            CacheSet(key, value, timeout)
    \/ CacheClear
    \/ CacheClearExpired
    \/ CacheGetStats
    \/ ClearCacheRoute
    \/ Tick

(***************************************************************************)
(* Data Acquisition: APIClient._process_symbol_data and                    *)
(* APIClient.get_all_futures_data.                                         *)
(*                                                                         *)
(* upstream[i] is what the wrapped calls answer for the i-th symbol:       *)
(*   klines   -1: get_klines_data returns None (request error, malformed   *)
(*                payload, retCode # 0 or an empty list);                  *)
(*            n >= 1: a DataFrame of n candles                             *)
(*   price    -1: get_current_price returns None; 0: it returns 0.0;       *)
(*            1: it returns a positive price                               *)
(*   verdict  what analyze_symbol computes from that series (a pure        *)
(*            function of the data): NoSignal or a decision                *)
(***************************************************************************)
max_workers == 5

NumSymbols == 10

MaxBatch == 2

\* Decisions analyze_symbol can come to (direction, strength, precision).
Decisions ==
    {[direction |-> "SELL", strength |-> "WEAK", precision |-> 700],
     [direction |-> "BUY", strength |-> "STRONG", precision |-> 700],
     [direction |-> "BUY", strength |-> "MODERATE", precision |-> 850],
     [direction |-> "SELL", strength |-> "MODERATE", precision |-> 700]}

Verdicts == {NoSignal} \cup Decisions

NetworkError == [klines |-> -1, price |-> -1, verdict |-> NoSignal]

Healthy(v) == [klines |-> 100, price |-> 1, verdict |-> v]

\* Every answer the code tells apart; a field the code never reads for that
\* answer (the price after a rejected series, the verdict of a dropped symbol)
\* is held at one value.
Answers ==
    {NetworkError,
     [klines |-> 50, price |-> 1, verdict |-> NoSignal],
     [klines |-> 51, price |-> -1, verdict |-> NoSignal],
     [klines |-> 51, price |-> 0, verdict |-> NoSignal]}
    \cup {[klines |-> 51, price |-> 1, verdict |-> v] : v \in Verdicts}

\* The spec's scenario: a batch wider than the pool whose 3rd and 7th symbols
\* raise network errors; the others are healthy and come to differing decisions.
WideBatch ==
    [i \in 1..NumSymbols |->
        IF i \in {3, 7} THEN NetworkError
        ELSE Healthy([direction |-> IF i % 2 = 1 THEN "SELL" ELSE "BUY",
                      strength |-> CASE i % 4 = 1 -> "WEAK"
                                     [] i % 4 = 0 -> "MODERATE"
                                     [] OTHER -> "STRONG",
                      precision |-> IF i > 5 THEN 850 ELSE 700])]

\* How one db_manager.save_signal call can end: the row is committed (True);
\* save_signal catches its own failure and returns False; or an exception
\* leaves save_signal and is caught at analysis.py:292.
SaveOutcomes == {"saved", "failed", "raised"}

\* In the wide batch the store fails for the 5th symbol and raises for the 9th.
WideStore ==
    [i \in 1..NumSymbols |->
        IF i = 5 THEN "failed" ELSE IF i = 9 THEN "raised" ELSE "saved"]

\* The worlds a run starts in: what the exchange answers and how the store
\* behaves, for every batch of up to MaxBatch symbols and for the wide batch.
\* The store's behaviour is held at "saved" for a symbol that has no decision.
Worlds ==
    UNION {{w \in [answers : [1..n -> Answers], store : [1..n -> SaveOutcomes]] :
              \A i \in 1..n :
                  w.answers[i].verdict = NoSignal => w.store[i] = "saved"}
           : n \in 1..MaxBatch}
    \cup {[answers |-> WideBatch, store |-> WideStore]}

\* _process_symbol_data returning None.
NoEntry == [symbol |-> 0, candles |-> 0, current_price |-> 0]

\* _process_symbol_data: df is not None and len(df) > 50, then a truthy price.
ProcessSymbolData(symbol, answer) ==
    IF answer.klines # -1 /\ answer.klines > 50
    THEN IF answer.price # -1 /\ answer.price # 0
         THEN [symbol |-> symbol, candles |-> answer.klines, current_price |-> answer.price]
         ELSE NoEntry
    ELSE NoEntry

InFlight == {i \in DOMAIN task : task[i] = "running"}

AcqIdle ==
    /\ symbols = <<>>
    /\ task = <<>>
    /\ futures_data = <<>>
    /\ acq_pc = "idle"
    /\ acq_ret = <<>>

\* get_all_futures_symbols as get_all_futures_data sees it: the list, or [] when
\* the listing failed.  A non-empty list is submitted whole to the executor.
GetAllFuturesSymbols(ok) ==
    /\ acq_pc = "listing"
    /\ IF ok
       THEN /\ symbols' = [i \in 1..Len(upstream) |-> i]
            /\ task' = [i \in 1..Len(upstream) |-> "queued"]
            /\ acq_pc' = "pool"
            /\ UNCHANGED acq_ret
       ELSE /\ symbols' = <<>>
            /\ acq_pc' = "returned"
            /\ acq_ret' = <<>>
            /\ UNCHANGED task
    /\ UNCHANGED <<upstream, futures_data, cls_vars, ana_vars, list_vars, rep_vars, cache_vars, eval_vars, key_vars, health_vars, ind_vars, metric_vars, wrap_vars>>

\* A plausible slip: an executor that starts a thread per submitted task.
StartTaskUnbounded(i) ==
    /\ acq_pc = "pool"
    /\ task[i] = "queued"
    /\ \A j \in 1..(i - 1) : task[j] # "queued"
    /\ task' = [task EXCEPT ![i] = "running"]
    /\ UNCHANGED <<upstream, symbols, futures_data, acq_pc, acq_ret,
                   cls_vars, ana_vars, list_vars, rep_vars, cache_vars, eval_vars, key_vars, health_vars, ind_vars, metric_vars, wrap_vars>>

\* ThreadPoolExecutor(max_workers=5): a free worker takes the oldest queued task.
StartTask(i) ==
    /\ acq_pc = "pool"
    /\ task[i] = "queued"
    /\ \A j \in 1..(i - 1) : task[j] # "queued"
    /\ Cardinality(InFlight) < max_workers
    /\ task' = [task EXCEPT ![i] = "running"]
    /\ UNCHANGED <<upstream, symbols, futures_data, acq_pc, acq_ret,
                   cls_vars, ana_vars, list_vars, rep_vars, cache_vars, eval_vars, key_vars, health_vars, ind_vars, metric_vars, wrap_vars>>

\* A plausible slip: a failed fetch is not caught per symbol, escapes the
\* as_completed loop and the outer handler returns [].
CompleteTaskAborting(i) ==
    /\ acq_pc = "pool"
    /\ task[i] = "running"
    /\ task' = [task EXCEPT ![i] = "done"]
    /\ IF upstream[i].klines = -1 \/ upstream[i].price = -1
       THEN /\ acq_pc' = "returned"
            /\ acq_ret' = <<>>
            /\ UNCHANGED futures_data
       ELSE /\ futures_data' =
                  IF ProcessSymbolData(symbols[i], upstream[i]) # NoEntry
                  THEN Append(futures_data, ProcessSymbolData(symbols[i], upstream[i]))
                  ELSE futures_data
            /\ UNCHANGED <<acq_pc, acq_ret>>
    /\ UNCHANGED <<upstream, symbols, cls_vars, ana_vars, list_vars, rep_vars, cache_vars, eval_vars, key_vars, health_vars, ind_vars, metric_vars, wrap_vars>>

\* A plausible slip: requests.get without a timeout, so the fetch of a symbol
\* whose request fails never returns.
CompleteTaskHangsOnFailure(i) ==
    /\ acq_pc = "pool"
    /\ task[i] = "running"
    /\ upstream[i].klines # -1
    /\ task' = [task EXCEPT ![i] = "done"]
    /\ futures_data' =
          IF ProcessSymbolData(symbols[i], upstream[i]) # NoEntry
          THEN Append(futures_data, ProcessSymbolData(symbols[i], upstream[i]))
          ELSE futures_data
    /\ UNCHANGED <<upstream, symbols, acq_pc, acq_ret, cls_vars, ana_vars, list_vars, rep_vars,
                   cache_vars, eval_vars, key_vars, health_vars, ind_vars, metric_vars,
                   wrap_vars>>

\* A running task finishes _process_symbol_data and as_completed hands its
\* future to the collecting loop, which appends a truthy result.
CompleteTask(i) ==
    /\ acq_pc = "pool"
    /\ task[i] = "running"
    /\ task' = [task EXCEPT ![i] = "done"]
    /\ futures_data' =
          IF ProcessSymbolData(symbols[i], upstream[i]) # NoEntry
          THEN Append(futures_data, ProcessSymbolData(symbols[i], upstream[i]))
          ELSE futures_data
    /\ UNCHANGED <<upstream, symbols, acq_pc, acq_ret, cls_vars, ana_vars, list_vars, rep_vars, cache_vars, eval_vars, key_vars, health_vars, ind_vars, metric_vars, wrap_vars>>

\* The with-block ends when every future is done; futures_data is returned.
ReturnFuturesData ==
    /\ acq_pc = "pool"
    /\ \A i \in DOMAIN task : task[i] = "done"
    /\ acq_pc' = "returned"
    /\ acq_ret' = futures_data
    /\ UNCHANGED <<upstream, symbols, task, futures_data, cls_vars, ana_vars, list_vars, rep_vars, cache_vars, eval_vars, key_vars, health_vars, ind_vars, metric_vars, wrap_vars>>

(***************************************************************************)
(* Pipeline Orchestrator: TradingAnalyzer.analyze_all_futures.             *)
(***************************************************************************)

\* Python compares the strength labels as text: by their first letters here.
StrengthText(s) ==
    CASE s = "MODERATE" -> 77 [] s = "STRONG" -> 83 [] s = "WEAK" -> 87 [] OTHER -> 0

\* A plausible slip: the strength compared by severity (WEAK < MODERATE < STRONG).
KeyLessBySeverity(a, b) ==
    LET severity(x) == CASE x = "WEAK" -> 1 [] x = "MODERATE" -> 2 [] x = "STRONG" -> 3
                         [] OTHER -> 0
    IN  \/ a.precision < b.precision
        \/ a.precision = b.precision /\ severity(a.strength) < severity(b.strength)

\* key=lambda x: (x['precision'], x['strength']) compared as tuples
KeyLess(a, b) ==
    \/ a.precision < b.precision
    \/ a.precision = b.precision /\ StrengthText(a.strength) < StrengthText(b.strength)

\* One element put into a list already sorted descending, after its equals.
RECURSIVE InsertDescending(_, _)
InsertDescending(sorted, x) ==
    IF sorted = <<>> THEN <<x>>
    ELSE IF KeyLess(Head(sorted), x) THEN <<x>> \o sorted
    ELSE <<Head(sorted)>> \o InsertDescending(Tail(sorted), x)

\* list.sort(key=..., reverse=True): a stable sort, descending by key.
RECURSIVE SortDescending(_)
SortDescending(list) ==
    IF list = <<>> THEN <<>>
    ELSE InsertDescending(SortDescending(SubSeq(list, 1, Len(list) - 1)),
                          list[Len(list)])

\* analyze_symbol on one collected entry: None under 50 candles, else what the
\* indicators and the classifier make of the series.
AnalyzeEntry(entry) ==
    IF entry.candles < 50 THEN NoSignal ELSE upstream[entry.symbol].verdict

ResultOf(entry) ==
    [symbol |-> entry.symbol,
     direction |-> AnalyzeEntry(entry).direction,
     strength |-> AnalyzeEntry(entry).strength,
     precision |-> AnalyzeEntry(entry).precision]

EvalIdle ==
    /\ eval_pc = "idle"
    /\ eval_i = 0
    /\ analysis_results = <<>>
    /\ stored = {}
    /\ eval_ret = <<>>

\* analyze_all_futures is called and calls api_client.get_all_futures_data().
AnalyzeAllFutures ==
    /\ eval_pc = "idle"
    /\ acq_pc = "idle"
    /\ eval_pc' = "acquiring"
    /\ acq_pc' = "listing"
    /\ UNCHANGED <<upstream, symbols, task, futures_data, acq_ret, eval_i,
                   analysis_results, stored, store_answer, eval_ret, cls_vars, key_vars, health_vars, ind_vars, metric_vars, wrap_vars, ana_vars, list_vars, rep_vars, cache_vars>>

\* get_all_futures_data has returned: [] ends the call, else the loop begins.
EnterLoop ==
    /\ eval_pc = "acquiring"
    /\ acq_pc = "returned"
    /\ IF acq_ret = <<>>
       THEN /\ eval_pc' = "returned"
            /\ eval_ret' = <<>>
            /\ UNCHANGED eval_i
       ELSE /\ eval_pc' = "loop"
            /\ eval_i' = 1
            /\ UNCHANGED eval_ret
    /\ UNCHANGED <<analysis_results, stored, store_answer, acq_vars, cls_vars, key_vars, health_vars, ind_vars, metric_vars, wrap_vars, ana_vars, list_vars, rep_vars, cache_vars>>

\* A plausible slip: save_signal is called outside any try of its own, so an
\* exception leaving it reaches the outer handler, which returns [].
EvaluateNextSaveUncaught ==
    /\ eval_pc = "loop"
    /\ eval_i <= Len(acq_ret)
    /\ LET entry == acq_ret[eval_i]
           outcome == store_answer[entry.symbol]
       IN  IF AnalyzeEntry(entry) # NoSignal /\ outcome = "raised"
           THEN /\ eval_pc' = "returned"
                /\ eval_ret' = <<>>
                /\ analysis_results' = Append(analysis_results, ResultOf(entry))
                /\ UNCHANGED <<eval_i, stored>>
           ELSE /\ IF AnalyzeEntry(entry) # NoSignal
                   THEN /\ analysis_results' = Append(analysis_results, ResultOf(entry))
                        /\ stored' = IF outcome = "saved"
                                     THEN stored \cup {ResultOf(entry)} ELSE stored
                   ELSE UNCHANGED <<analysis_results, stored>>
                /\ eval_i' = eval_i + 1
                /\ UNCHANGED <<eval_pc, eval_ret>>
    /\ UNCHANGED <<store_answer, acq_vars, cls_vars, key_vars, health_vars, ind_vars, metric_vars, wrap_vars, ana_vars, list_vars, rep_vars, cache_vars>>

\* A plausible slip: the result is appended only after a successful save.
EvaluateNextSaveFirst ==
    /\ eval_pc = "loop"
    /\ eval_i <= Len(acq_ret)
    /\ LET entry == acq_ret[eval_i]
           outcome == store_answer[entry.symbol]
       IN  IF AnalyzeEntry(entry) # NoSignal /\ outcome = "saved"
           THEN /\ analysis_results' = Append(analysis_results, ResultOf(entry))
                /\ stored' = stored \cup {ResultOf(entry)}
           ELSE UNCHANGED <<analysis_results, stored>>
    /\ eval_i' = eval_i + 1
    /\ UNCHANGED <<eval_pc, eval_ret, store_answer, acq_vars, cls_vars, key_vars, health_vars, ind_vars, metric_vars, wrap_vars, ana_vars, list_vars, rep_vars, cache_vars>>

\* One pass of the for loop: analyze the entry; a result is appended and then
\* handed to save_signal, whose failure is logged and changes nothing else.
EvaluateNext ==
    /\ eval_pc = "loop"
    /\ eval_i <= Len(acq_ret)
    /\ LET entry == acq_ret[eval_i]
           outcome == store_answer[entry.symbol]
       IN  IF AnalyzeEntry(entry) # NoSignal
           THEN /\ analysis_results' = Append(analysis_results, ResultOf(entry))
                /\ stored' = IF outcome = "saved"
                             THEN stored \cup {ResultOf(entry)} ELSE stored
           ELSE UNCHANGED <<analysis_results, stored>>
    /\ eval_i' = eval_i + 1
    /\ UNCHANGED <<eval_pc, eval_ret, store_answer, acq_vars, cls_vars, key_vars, health_vars, ind_vars, metric_vars, wrap_vars, ana_vars, list_vars, rep_vars, cache_vars>>

\* After the loop: sort descending by (precision, strength) and return.
ReturnResults ==
    /\ eval_pc = "loop"
    /\ eval_i > Len(acq_ret)
    /\ eval_pc' = "returned"
    /\ eval_ret' = SortDescending(analysis_results)
    /\ UNCHANGED <<eval_i, analysis_results, stored, store_answer, acq_vars,
                   cls_vars, key_vars, health_vars, ind_vars, metric_vars, wrap_vars, ana_vars, list_vars, rep_vars, cache_vars>>

PipelineInit ==
    /\ \E w \in Worlds : upstream = w.answers /\ store_answer = w.store
    /\ AcqIdle
    /\ EvalIdle

\* Batches of up to MaxLive symbols, wider than the pool, in which every third
\* symbol's requests fail and the others are healthy; the store saves.
MaxLive == 7

LiveBatch(n) ==
    [i \in 1..n |->
        IF i % 3 = 0 THEN NetworkError
        ELSE Healthy([direction |-> IF i % 2 = 1 THEN "SELL" ELSE "BUY",
                      strength |-> "STRONG", precision |-> 700])]

PipelineLiveInit ==
    /\ \E n \in 1..MaxLive :
          upstream = LiveBatch(n) /\ store_answer = [i \in 1..n |-> "saved"]
    /\ AcqIdle
    /\ EvalIdle

\* The pipeline at rest, for the specifications of the other components.
PipelineIdle ==
    /\ upstream = <<>>
    /\ store_answer = <<>>
    /\ AcqIdle
    /\ EvalIdle

PipelineNext ==
    \/ AnalyzeAllFutures
    \/ \E ok \in BOOLEAN : GetAllFuturesSymbols(ok)
    \/ \E i \in DOMAIN task : StartTask(i)
    \/ \E i \in DOMAIN task : CompleteTask(i)
    \/ ReturnFuturesData
    \/ EnterLoop
    \/ EvaluateNext
    \/ ReturnResults

(***************************************************************************)
(* The indicator functions called one at a time on short series, with any  *)
(* period.  A candle is <<low, close, high>> with low <= close <= high.  A *)
(* returned float is a number or NaN; the numbers are in hundredths, those *)
(* of calculate_macd in ten-thousandths.                                   *)
(***************************************************************************)

MaxCandles == 4
MaxPeriod == 3

Num(x) == [nan |-> FALSE, v |-> x]
NaN == [nan |-> TRUE, v |-> 0]

CandleShapes == {<<1, 1, 1>>, <<1, 1, 2>>, <<1, 2, 2>>, <<2, 2, 2>>}

Lows(candles) == [i \in 1..Len(candles) |-> candles[i][1]]
ClosesOf(candles) == [i \in 1..Len(candles) |-> candles[i][2]]
Highs(candles) == [i \in 1..Len(candles) |-> candles[i][3]]

SeqMin(s) == CHOOSE x \in {s[i] : i \in 1..Len(s)} : \A i \in 1..Len(s) : x <= s[i]
SeqMax(s) == CHOOSE x \in {s[i] : i \in 1..Len(s)} : \A i \in 1..Len(s) : x >= s[i]

\* rolling(window=period).std() at the last row, in hundredths: NaN for a
\* window of one value (ddof = 1), else the root of V / (period * period *
\* (period - 1)), V as in CalculateZScore.
RollingStd(prices, period) ==
    IF period = 1 THEN NaN
    ELSE LET w == LastWindow(prices, period)
             sum == SumTo(w, period)
             V == SumTo([i \in 1..period |-> (period * w[i] - sum) * (period * w[i] - sum)],
                        period)
         IN  Num(ISqrt((10000 * V) \div (period * period * (period - 1))))

\* calculate_z_score for any period: the std of a window of one value is NaN,
\* which is not == 0, and the quotient by it is NaN.
ZScoreAnyPeriod(prices, period) ==
    IF Len(prices) >= period /\ RollingStd(prices, period).nan THEN NaN
    ELSE Num(CalculateZScore(prices, period))

\* calculate_bollinger_bands with std_dev = 2.0: (upper, sma, lower).
CalculateBollingerBands(prices, period) ==
    IF Len(prices) < period THEN <<Num(0), Num(0), Num(0)>>
    ELSE LET sma == CalculateSma(prices, period)
             std == RollingStd(prices, period)
         IN  IF std.nan THEN <<NaN, Num(sma), NaN>>
             ELSE <<Num(sma + 2 * std.v), Num(sma), Num(sma - 2 * std.v)>>

\* k_percent at row t: NaN before the first full window, and NaN (0 / 0) when
\* the highest high of the window equals its lowest low.
KPercent(candles, period, t) ==
    IF t < period THEN NaN
    ELSE LET w == SubSeq(candles, t - period + 1, t)
             lowest_low == SeqMin(Lows(w))
             highest_high == SeqMax(Highs(w))
         IN  IF highest_high = lowest_low THEN NaN
             ELSE Num((10000 * (candles[t][2] - lowest_low)) \div (highest_high - lowest_low))

\* calculate_stochastic: (50.0, 50.0) under period closes, else the last
\* k_percent and the mean of the last three k_percent, which is NaN unless all
\* three are numbers.
CalculateStochastic(candles, period) ==
    IF Len(candles) < period THEN <<Num(5000), Num(5000)>>
    ELSE LET n == Len(candles)
             k == [t \in 1..n |-> KPercent(candles, period, t)]
         IN  <<k[n],
               IF n >= 3 /\ \A t \in (n - 2)..n : ~k[t].nan
               THEN Num((k[n - 2].v + k[n - 1].v + k[n].v) \div 3)
               ELSE NaN>>

\* true_range at row t: the largest of high - low, |high - previous close| and
\* |low - previous close|; max(axis=1) skips the two that are NaN on the first
\* row.
TrueRange(candles, t) ==
    LET tr1 == candles[t][3] - candles[t][1]
    IN  IF t = 1 THEN tr1
        ELSE SeqMax(<<tr1, Abs(candles[t][3] - candles[t - 1][2]),
                      Abs(candles[t][1] - candles[t - 1][2])>>)

\* calculate_atr: 0.0 under period closes, else the mean of the last period
\* true ranges.
CalculateAtr(candles, period) ==
    IF Len(candles) < period THEN Num(0)
    ELSE LET n == Len(candles)
             true_range == [i \in 1..period |-> TrueRange(candles, n - period + i)]
         IN  Num((100 * SumTo(true_range, period)) \div period)

IndicatorNames ==
    {"calculate_z_score", "calculate_sma", "calculate_rsi", "calculate_macd",
     "calculate_bollinger_bands", "calculate_stochastic", "calculate_atr"}

\* The tuple of floats the named function returns; calculate_macd is called
\* with slow = period.
CallIndicator(func, candles, period) ==
    LET prices == ClosesOf(candles)
    IN  CASE func = "calculate_z_score" -> <<ZScoreAnyPeriod(prices, period)>>
          [] func = "calculate_sma" -> <<Num(CalculateSma(prices, period))>>
          [] func = "calculate_rsi" -> <<Num(CalculateRsi(prices, period))>>
          [] func = "calculate_macd" ->
                LET m == CalculateMacd([i \in 1..Len(prices) |-> 10000 * prices[i]],
                                       12, period, 9)
                IN  <<Num(m.macd_line), Num(m.signal_line), Num(m.histogram)>>
          [] func = "calculate_bollinger_bands" -> CalculateBollingerBands(prices, period)
          [] func = "calculate_stochastic" -> CalculateStochastic(candles, period)
          [] func = "calculate_atr" -> <<CalculateAtr(candles, period)>>

IndicatorCalls ==
    [func : IndicatorNames,
     candles : UNION {[1..n -> CandleShapes] : n \in 0..MaxCandles},
     period : 1..MaxPeriod]

IndIdle ==
    /\ ind_call = [func |-> "none"]
    /\ ind_pc = "idle"
    /\ ind_ret = <<>>

IndInit ==
    /\ ind_call \in IndicatorCalls
    /\ ind_pc = "call"
    /\ ind_ret = <<>>

CalculateIndicator ==
    /\ ind_pc = "call"
    /\ ind_ret' = CallIndicator(ind_call.func, ind_call.candles, ind_call.period)
    /\ ind_pc' = "returned"
    /\ UNCHANGED <<ind_call, cls_vars, cache_vars, acq_vars, eval_vars, ana_vars, rep_vars,
                   list_vars, key_vars, health_vars, metric_vars, wrap_vars>>

IndNext == CalculateIndicator

(***************************************************************************)
(* monitoring.cache_result: the cache key of a call.  A call is written    *)
(* with positional arguments (args, after self) and keyword arguments      *)
(* (kwargs, a set of <<name, value>> pairs); an argument value is the text *)
(* repr gives it ("'BTCUSDT'", "'240'", "100").                            *)
(***************************************************************************)

\* f"{func.__name__}:{hash(str(args) + str(sorted(kwargs.items())))}".  The
\* text str(args) + str(sorted(kwargs.items())) is settled by the tuple of
\* positional values and the set of keyword items, and distinct texts are
\* given distinct hashes here.
WrapperKey(func, args, kwargs) == <<func, args, kwargs>>

\* The parameters after self of the wrapped functions and their defaults
\* (api_client.py:67 and :96).
Params(func) ==
    IF func = "get_klines_data" THEN <<"symbol", "interval", "limit">> ELSE <<"symbol">>

Defaults(func) ==
    IF func = "get_klines_data" THEN <<"", "'240'", "100">> ELSE <<"">>

\* The argument values Python binds to the parameters of the call.
BoundArguments(call) ==
    [n \in 1..Len(Params(call.func)) |->
        IF n <= Len(call.args) THEN call.args[n]
        ELSE IF \E item \in call.kwargs : item[1] = Params(call.func)[n]
             THEN (CHOOSE item \in call.kwargs : item[1] = Params(call.func)[n])[2]
             ELSE Defaults(call.func)[n]]

SymbolValues == {"'BTCUSDT'", "'ETHUSDT'"}

\* Calls of the two wrapped fetches, written in several ways.
WrittenCalls ==
    UNION {{[func |-> "get_klines_data", args |-> <<v>>, kwargs |-> {}],
            [func |-> "get_klines_data", args |-> <<v, "'240'", "100">>, kwargs |-> {}],
            [func |-> "get_klines_data", args |-> <<v, "'60'">>, kwargs |-> {}],
            [func |-> "get_klines_data", args |-> <<>>, kwargs |-> {<<"symbol", v>>}],
            [func |-> "get_klines_data", args |-> <<v>>, kwargs |-> {<<"limit", "100">>}],
            [func |-> "get_klines_data", args |-> <<v>>, kwargs |-> {<<"limit", "200">>}],
            [func |-> "get_current_price", args |-> <<v>>, kwargs |-> {}],
            [func |-> "get_current_price", args |-> <<>>, kwargs |-> {<<"symbol", v>>}]}
           : v \in SymbolValues}

KeyIdle ==
    /\ calls = <<>>
    /\ key_pc = "idle"
    /\ cache_keys = <<>>

KeyInit ==
    /\ calls \in [1..2 -> WrittenCalls]
    /\ key_pc = "call"
    /\ cache_keys = <<>>

\* The wrapper derives the key of each of the two calls.
DeriveKeys ==
    /\ key_pc = "call"
    /\ cache_keys' = [n \in 1..2 |-> WrapperKey(calls[n].func, calls[n].args, calls[n].kwargs)]
    /\ key_pc' = "derived"
    /\ UNCHANGED <<calls, cls_vars, cache_vars, acq_vars, eval_vars, ana_vars, rep_vars,
                   list_vars, health_vars, ind_vars, metric_vars, wrap_vars>>

KeyNext == DeriveKeys

(***************************************************************************)
(* The cached fetches (monitoring.cache_result around get_klines_data and  *)
(* get_current_price) under two analyze_all_futures calls made one after   *)
(* the other over a fixed symbol list.                                     *)
(***************************************************************************)
NumRepSymbols == 2

MaxClock == 400

ClockStep == 100

\* @cache_result(timeout=300) on get_klines_data
KlinesTtl == 300

\* @cache_result(timeout=60) on get_current_price
PriceTtl == 60

\* The DataFrames the exchange can answer with; a fetch's result is an index
\* into this list, or None.
RepSeries ==
    <<FallingScenario,
      [close |-> Closes("spike", 100, KlineLimit), volume |-> Volumes("surge", KlineLimit),
       tick_num |-> 1, tick_den |-> 1],
      [close |-> Closes("dip", 100, 50), volume |-> Volumes("steady", 50),
       tick_num |-> 1, tick_den |-> 1]>>

\* analyze_symbol's indicator values for each of these DataFrames.
RepSnapshots == [d \in 1..Len(RepSeries) |-> Indicators(RepSeries[d])]

\* What the exchange answers for one symbol: the series (or None) and the price
\* (1, or None).
ExchAnswers == [klines : 0..Len(RepSeries), price : 0..1]

\* The key of the call func(symbol) that _process_symbol_data makes.
CacheKey(func, symbol) == WrapperKey(func, <<symbol>>, {})

\* No indicator values: the symbol did not reach the indicators in that call.
NoSnapshot == [absent |-> TRUE]

\* A plausible slip: the wrapper returns the fetched result without storing it.
CachedCallNoStore(c, t, key, fetched, timeout) ==
    LET live == key \in DOMAIN c /\ key \in DOMAIN t /\ now < t[key]
        cached_result == IF live THEN c[key] ELSE None
    IN  IF cached_result # None
        THEN [value |-> cached_result, cache |-> c, timeouts |-> t, hit |-> TRUE]
        ELSE [value |-> fetched, cache |-> c, timeouts |-> t, hit |-> FALSE]

\* cache_result's wrapper on the dicts c and t: cache_manager.get(key); a result
\* that is not None is returned; else the function is called (it answers
\* fetched) and its result, None included, is stored with the timeout and
\* returned.  An expired entry removed by get is the one set then writes.
CachedCall(c, t, key, fetched, timeout) ==
    LET live == key \in DOMAIN c /\ key \in DOMAIN t /\ now < t[key]
        cached_result == IF live THEN c[key] ELSE None
    IN  IF cached_result # None
        THEN [value |-> cached_result, cache |-> c, timeouts |-> t, hit |-> TRUE]
        ELSE [value |-> fetched, cache |-> With(c, key, fetched),
              timeouts |-> With(t, key, now + timeout), hit |-> FALSE]

RepIdle ==
    /\ exch = <<>>
    /\ exch_moved = FALSE
    /\ rep_call = 0
    /\ rep_pc = "idle"
    /\ rep_i = 0
    /\ snaps = <<>>
    /\ look_at = <<>>
    /\ from_cache = <<>>

RepInit ==
    /\ exch \in [1..NumRepSymbols -> ExchAnswers]
    /\ exch_moved = FALSE
    /\ rep_call = 0
    /\ rep_pc = "idle"
    /\ rep_i = 0
    /\ snaps = [k \in 1..2 |-> [i \in 1..NumRepSymbols |-> NoSnapshot]]
    /\ look_at = [k \in 1..2 |-> [i \in 1..NumRepSymbols |-> 0]]
    /\ from_cache = [k \in 1..2 |-> [i \in 1..NumRepSymbols |-> FALSE]]

\* analyze_all_futures is called (the first or the second time).
RepStart ==
    /\ rep_pc = "idle"
    /\ rep_call < 2
    /\ rep_pc' = "running"
    /\ rep_i' = 1
    /\ UNCHANGED <<exch, exch_moved, rep_call, snaps, look_at, from_cache,
                   cache_vars, cls_vars, ana_vars, list_vars, acq_vars, eval_vars, key_vars, health_vars, ind_vars, metric_vars, wrap_vars>>

\* One symbol of the running call: _process_symbol_data (the cached series
\* fetch, the length test, the cached price fetch, the price test) and, for an
\* entry, analyze_symbol's indicator values.
RepSymbol ==
    /\ rep_pc = "running"
    /\ rep_i <= NumRepSymbols
    /\ LET k == rep_call + 1
           i == rep_i
           klines == CachedCall(cache, timeouts, CacheKey("get_klines_data", i),
                                exch[i].klines, KlinesTtl)
           df == klines.value
           long == IF df # None THEN Len(RepSeries[df].close) > 50 ELSE FALSE
           price == IF long
                    THEN CachedCall(klines.cache, klines.timeouts,
                                    CacheKey("get_current_price", i), exch[i].price, PriceTtl)
                    ELSE [value |-> None, cache |-> klines.cache,
                          timeouts |-> klines.timeouts, hit |-> FALSE]
       IN  /\ cache' = price.cache
           /\ timeouts' = price.timeouts
           /\ snaps' = [snaps EXCEPT ![k][i] =
                            IF long /\ price.value # None
                            THEN RepSnapshots[df] ELSE NoSnapshot]
           /\ look_at' = [look_at EXCEPT ![k][i] = now]
           /\ from_cache' = [from_cache EXCEPT ![k][i] = klines.hit]
    /\ rep_i' = rep_i + 1
    /\ UNCHANGED <<exch, exch_moved, rep_call, rep_pc, now, cache_ret, last_set,
                   cls_vars, ana_vars, list_vars, acq_vars, eval_vars, key_vars, health_vars, ind_vars, metric_vars, wrap_vars>>

\* The running call returns.
RepReturn ==
    /\ rep_pc = "running"
    /\ rep_i > NumRepSymbols
    /\ rep_pc' = "idle"
    /\ rep_call' = rep_call + 1
    /\ UNCHANGED <<exch, exch_moved, rep_i, snaps, look_at, from_cache,
                   cache_vars, cls_vars, ana_vars, list_vars, acq_vars, eval_vars, key_vars, health_vars, ind_vars, metric_vars, wrap_vars>>

\* Time passes.
RepWait ==
    /\ now + ClockStep <= MaxClock
    /\ now' = now + ClockStep
    /\ UNCHANGED <<cache, timeouts, cache_ret, last_set, rep_vars,
                   cls_vars, ana_vars, list_vars, acq_vars, eval_vars, key_vars, health_vars, ind_vars, metric_vars, wrap_vars>>

\* Between the two calls the exchange comes to answer a symbol's series fetch
\* differently.
ExchangeMoves ==
    /\ rep_call = 1
    /\ rep_pc = "idle"
    /\ ~exch_moved
    /\ \E i \in 1..NumRepSymbols, d \in 0..Len(RepSeries) :
          /\ d # exch[i].klines
          /\ exch' = [exch EXCEPT ![i].klines = d]
    /\ exch_moved' = TRUE
    /\ UNCHANGED <<rep_call, rep_pc, rep_i, snaps, look_at, from_cache,
                   cache_vars, cls_vars, ana_vars, list_vars, acq_vars, eval_vars, key_vars, health_vars, ind_vars, metric_vars, wrap_vars>>

RepNext ==
    \/ RepStart
    \/ RepSymbol
    \/ RepReturn
    \/ RepWait
    \/ ExchangeMoves

(***************************************************************************)
(* APIClient.get_all_futures_symbols.  A symbol name is the sequence of    *)
(* its characters.                                                         *)
(***************************************************************************)
MaxListing == 2

\* str.startswith, str.endswith and the in operator of two strings
StartsWith(name, prefix) ==
    Len(name) >= Len(prefix) /\ SubSeq(name, 1, Len(prefix)) = prefix

EndsWith(name, suffix) ==
    Len(name) >= Len(suffix) /\ SubSeq(name, Len(name) - Len(suffix) + 1, Len(name)) = suffix

Contains(name, part) ==
    \E i \in 1..(Len(name) - Len(part) + 1) : SubSeq(name, i, i + Len(part) - 1) = part

USDT == <<"U", "S", "D", "T">>

TEST == <<"T", "E", "S", "T">>

DEMO == <<"D", "E", "M", "O">>

MOCK == <<"M", "O", "C", "K">>

Thousand == <<"1", "0", "0", "0">>

\* The names an instrument of the listing can carry; the empty name stands for
\* an instrument without a symbol.
InstrumentNames ==
    {<<"B">> \o USDT, <<"E">> \o USDT, <<"B", "U", "S", "D">>, <<>>,
     Thousand \o <<"P">> \o USDT, Thousand \o <<"0", "P">> \o USDT,
     TEST \o USDT, DEMO \o USDT, MOCK \o USDT,
     <<"X">> \o TEST \o USDT, <<"X">> \o DEMO \o USDT, <<"X">> \o MOCK \o USDT}

\* The test an instrument's symbol passes to be appended (api_client.py:51-55);
\* the prefixes 10000, 100000 and 1000000 begin with 1000.
Listed(symbol) ==
    /\ symbol # <<>>
    /\ EndsWith(symbol, USDT)
    /\ ~ \/ StartsWith(symbol, Thousand)
         \/ StartsWith(symbol, Thousand \o <<"0">>)
         \/ StartsWith(symbol, Thousand \o <<"0", "0">>)
         \/ StartsWith(symbol, Thousand \o <<"0", "0", "0">>)
         \/ StartsWith(symbol, TEST)
         \/ StartsWith(symbol, DEMO)
         \/ StartsWith(symbol, MOCK)
         \/ Contains(symbol, TEST)
         \/ Contains(symbol, DEMO)

\* What _make_request and the retCode test leave: the instrument list, or a
\* failure (no response, or a retCode other than 0).
Listings ==
    {[ok |-> FALSE, list |-> <<>>]}
    \cup {[ok |-> TRUE, list |-> l] :
             l \in UNION {[1..n -> InstrumentNames] : n \in 0..MaxListing}}

ListIdle ==
    /\ listing = [ok |-> FALSE, list |-> <<>>]
    /\ list_pc = "idle"
    /\ list_ret = <<>>

ListInit ==
    /\ listing \in Listings
    /\ list_pc = "call"
    /\ list_ret = <<>>

\* get_all_futures_symbols: [] on a failed request, else the symbols of the
\* instruments that pass the test, in the order of the listing.
ListSymbols ==
    /\ list_pc = "call"
    /\ list_ret' = IF listing.ok THEN SelectSeq(listing.list, Listed) ELSE <<>>
    /\ list_pc' = "returned"
    /\ UNCHANGED <<listing, cls_vars, cache_vars, acq_vars, eval_vars, key_vars, health_vars, ind_vars, metric_vars, wrap_vars, ana_vars, rep_vars>>

ListNext == ListSymbols

(***************************************************************************)
(* monitoring.cache_result around get_all_futures_symbols and              *)
(* get_klines_data, called from several threads.  The wrapper calls        *)
(* cache_manager.get, then the function, then cache_manager.set: the two   *)
(* cache calls each hold the cache's lock, the function call holds none.   *)
(* A payload the upstream delivers is the number of the contact that       *)
(* fetched it.                                                             *)
(***************************************************************************)
NumThreads == 2
MaxContacts == 2

\* @cache_result(timeout=600) on get_all_futures_symbols
SymbolsTtl == 600

\* The empty list get_all_futures_symbols returns when the listing failed: a
\* value that is not None.
EmptyList == -1

WrappedFunctions == {"get_all_futures_symbols", "get_klines_data"}

\* What the function returns when its request fails.
FailureResult(func) == IF func = "get_all_futures_symbols" THEN EmptyList ELSE None

TtlOf(func) == IF func = "get_all_futures_symbols" THEN SymbolsTtl ELSE KlinesTtl

\* The key of the one call of each function the threads make.
KeyOfCall(func) ==
    IF func = "get_all_futures_symbols" THEN WrapperKey(func, <<>>, {})
    ELSE CacheKey(func, 1)

IdleThread == [pc |-> "idle", func |-> "none", result |-> None, hit |-> FALSE,
               fetched |-> FALSE, expiry |-> 0, found |-> FALSE]

WrapIdle ==
    /\ wrapped = <<>>
    /\ upstream_up = TRUE
    /\ contacts = 0

WrapInit ==
    /\ wrapped = [t \in 1..NumThreads |-> IdleThread]
    /\ upstream_up \in BOOLEAN
    /\ contacts = 0

\* A thread calls a wrapped function; a thread whose call has returned may
\* call again.
WrapperCalled(t) ==
    /\ wrapped[t].pc \in {"idle", "returned"}
    /\ contacts + Cardinality({u \in 1..NumThreads : wrapped[u].pc \in {"get", "func"}})
           < MaxContacts
    /\ \E func \in WrappedFunctions :
          wrapped' = [wrapped EXCEPT ![t] = [IdleThread EXCEPT !.pc = "get", !.func = func]]
    /\ UNCHANGED <<upstream_up, contacts, cls_vars, cache_vars, acq_vars, eval_vars, ana_vars,
                   rep_vars, list_vars, key_vars, health_vars, ind_vars, metric_vars>>

\* cached_result = cache_manager.get(cache_key); a result that is not None is
\* returned.  get removes an entry it finds expired.
WrapperGet(t) ==
    /\ wrapped[t].pc = "get"
    /\ LET key == KeyOfCall(wrapped[t].func)
           present == key \in DOMAIN cache /\ key \in DOMAIN timeouts
           live == present /\ now < timeouts[key]
           cached_result == IF live THEN cache[key] ELSE None
       IN  /\ IF present /\ ~live
              THEN cache' = Without(cache, key) /\ timeouts' = Without(timeouts, key)
              ELSE UNCHANGED <<cache, timeouts>>
           /\ wrapped' = [wrapped EXCEPT ![t] =
                             IF cached_result # None
                             THEN [@ EXCEPT !.pc = "returned", !.result = cached_result,
                                            !.hit = TRUE]
                             ELSE [@ EXCEPT !.pc = "func"]]
    /\ UNCHANGED <<now, cache_ret, last_set, upstream_up, contacts, cls_vars, acq_vars,
                   eval_vars, ana_vars, rep_vars, list_vars, key_vars, health_vars, ind_vars,
                   metric_vars>>

\* result = func(*args, **kwargs): the function contacts the upstream and
\* returns its payload, or its failure result when the request fails.
WrapperFunc(t) ==
    /\ wrapped[t].pc = "func"
    /\ contacts' = contacts + 1
    /\ wrapped' = [wrapped EXCEPT ![t].pc = "set",
                                  ![t].fetched = TRUE,
                                  ![t].result = IF upstream_up THEN contacts + 1
                                                ELSE FailureResult(wrapped[t].func)]
    /\ UNCHANGED <<upstream_up, cls_vars, cache_vars, acq_vars, eval_vars, ana_vars,
                   rep_vars, list_vars, key_vars, health_vars, ind_vars, metric_vars>>

\* A plausible slip: the store leaves an entry another thread has put there.
WrapperSetIfAbsent(t) ==
    /\ wrapped[t].pc = "set"
    /\ LET key == KeyOfCall(wrapped[t].func)
           expiry == now + TtlOf(wrapped[t].func)
       IN  /\ cache' = IF key \in DOMAIN cache THEN cache
                       ELSE With(cache, key, wrapped[t].result)
           /\ timeouts' = IF key \in DOMAIN timeouts THEN timeouts
                          ELSE With(timeouts, key, expiry)
           /\ wrapped' = [wrapped EXCEPT ![t].pc = "returned", ![t].expiry = expiry,
                                         ![t].found = key \in DOMAIN cache]
    /\ UNCHANGED <<now, cache_ret, last_set, upstream_up, contacts, cls_vars, acq_vars,
                   eval_vars, ana_vars, rep_vars, list_vars, key_vars, health_vars, ind_vars,
                   metric_vars>>

\* cache_manager.set(cache_key, result, timeout); return result.  found notes
\* whether the key had an entry when the store was made.
WrapperSet(t) ==
    /\ wrapped[t].pc = "set"
    /\ LET key == KeyOfCall(wrapped[t].func)
           expiry == now + TtlOf(wrapped[t].func)
       IN  /\ cache' = With(cache, key, wrapped[t].result)
           /\ timeouts' = With(timeouts, key, expiry)
           /\ wrapped' = [wrapped EXCEPT ![t].pc = "returned", ![t].expiry = expiry,
                                         ![t].found = key \in DOMAIN cache]
    /\ UNCHANGED <<now, cache_ret, last_set, upstream_up, contacts, cls_vars, acq_vars,
                   eval_vars, ana_vars, rep_vars, list_vars, key_vars, health_vars, ind_vars,
                   metric_vars>>

\* The upstream goes down or comes back.
UpstreamChanges ==
    /\ upstream_up' = ~upstream_up
    /\ UNCHANGED <<wrapped, contacts, cls_vars, cache_vars, acq_vars, eval_vars, ana_vars,
                   rep_vars, list_vars, key_vars, health_vars, ind_vars, metric_vars>>

\* Time passes.
WrapperWait ==
    /\ now + ClockStep <= MaxClock
    /\ now' = now + ClockStep
    /\ UNCHANGED <<cache, timeouts, cache_ret, last_set, wrap_vars, cls_vars, acq_vars,
                   eval_vars, ana_vars, rep_vars, list_vars, key_vars, health_vars, ind_vars,
                   metric_vars>>

WrapNext ==
    \/ \E t \in 1..NumThreads : WrapperCalled(t)
    \/ \E t \in 1..NumThreads : WrapperGet(t)
    \/ \E t \in 1..NumThreads : WrapperFunc(t)
    \/ \E t \in 1..NumThreads : WrapperSet(t)
    \/ UpstreamChanges
    \/ WrapperWait

(***************************************************************************)
(* monitoring.PerformanceMonitor and monitoring.monitor_performance.       *)
(* Threads leave wrapped functions and record their elapsed time and       *)
(* outcome.  The body of record_metric runs under self.lock; it is taken   *)
(* here in two steps, the reading of the metric and the writing of the     *)
(* updated one.  Elapsed times are whole units of time.                    *)
(***************************************************************************)
NumRecorders == 2
MaxRecords == 3
MaxElapsed == 2

Operations == {"get_klines_data", "get_current_price"}

\* float('inf'), the min_time of a new metric
Infinity == MaxElapsed + 100

\* The defaultdict's factory (last_execution left out).
NewMetric == [count |-> 0, total_time |-> 0, min_time |-> Infinity, max_time |-> 0,
              errors |-> 0]

NoTally == [o \in Operations |-> [calls |-> 0, failures |-> 0, time |-> 0]]

IdleRecorder == [pc |-> "idle", operation |-> "none", execution_time |-> 0,
                 success |-> TRUE, metric |-> NewMetric]

MetricIdle ==
    /\ metrics = <<>>
    /\ metrics_lock = 0
    /\ recorder = <<>>
    /\ recorded = [started |-> 0, tally |-> NoTally]

MetricInit ==
    /\ metrics = <<>>
    /\ metrics_lock = 0
    /\ recorder = [w \in 1..NumRecorders |-> IdleRecorder]
    /\ recorded = [started |-> 0, tally |-> NoTally]

\* A plausible slip: record_metric without `with self.lock`.
LockAvailableUnlocked(w) == TRUE

\* `with self.lock` lets a thread in when no thread holds the lock.
LockAvailable(w) == metrics_lock = 0

\* monitor_performance's wrapper: the wrapped function returns or raises
\* after execution_time, and the finally clause calls record_metric.
WrappedFunctionEnds(w) ==
    /\ recorder[w].pc = "idle"
    /\ recorded.started < MaxRecords
    /\ \E operation \in Operations, execution_time \in 0..MaxElapsed, success \in BOOLEAN :
          recorder' = [recorder EXCEPT ![w] =
                          [pc |-> "record_metric", operation |-> operation,
                           execution_time |-> execution_time, success |-> success,
                           metric |-> NewMetric]]
    /\ recorded' = [recorded EXCEPT !.started = @ + 1]
    /\ UNCHANGED <<metrics, metrics_lock, cls_vars, cache_vars, acq_vars, eval_vars, ana_vars,
                   rep_vars, list_vars, key_vars, health_vars, ind_vars, wrap_vars>>

\* record_metric: the lock is taken and metric = self.metrics[operation] is
\* read, the defaultdict making a new metric for an operation it has not seen.
ReadMetric(w) ==
    /\ recorder[w].pc = "record_metric"
    /\ LockAvailable(w)
    /\ metrics_lock' = w
    /\ LET operation == recorder[w].operation
       IN  /\ metrics' = IF operation \in DOMAIN metrics THEN metrics
                         ELSE With(metrics, operation, NewMetric)
           /\ recorder' = [recorder EXCEPT ![w].pc = "update",
                                           ![w].metric = IF operation \in DOMAIN metrics
                                                         THEN metrics[operation]
                                                         ELSE NewMetric]
    /\ UNCHANGED <<recorded, cls_vars, cache_vars, acq_vars, eval_vars, ana_vars,
                   rep_vars, list_vars, key_vars, health_vars, ind_vars, wrap_vars>>

\* record_metric: count, total_time, min_time, max_time and errors are
\* written and the lock is released.
WriteMetric(w) ==
    /\ recorder[w].pc = "update"
    /\ LET r == recorder[w]
           m == r.metric
       IN  /\ metrics' = With(metrics, r.operation,
                              [count |-> m.count + 1,
                               total_time |-> m.total_time + r.execution_time,
                               min_time |-> Min(m.min_time, r.execution_time),
                               max_time |-> Max(m.max_time, r.execution_time),
                               errors |-> IF r.success THEN m.errors ELSE m.errors + 1])
           /\ recorded' = [recorded EXCEPT !.tally[r.operation] =
                              [calls |-> @.calls + 1,
                               failures |-> IF r.success THEN @.failures ELSE @.failures + 1,
                               time |-> @.time + r.execution_time]]
    /\ metrics_lock' = 0
    /\ recorder' = [recorder EXCEPT ![w] = IdleRecorder]
    /\ UNCHANGED <<cls_vars, cache_vars, acq_vars, eval_vars, ana_vars,
                   rep_vars, list_vars, key_vars, health_vars, ind_vars, wrap_vars>>

\* reset_metrics: self.metrics.clear() under the lock.
ResetMetrics ==
    /\ metrics_lock = 0
    /\ metrics' = <<>>
    /\ recorded' = [recorded EXCEPT !.tally = NoTally]
    /\ UNCHANGED <<metrics_lock, recorder, cls_vars, cache_vars, acq_vars, eval_vars, ana_vars,
                   rep_vars, list_vars, key_vars, health_vars, ind_vars, wrap_vars>>

MetricNext ==
    \/ \E w \in 1..NumRecorders : WrappedFunctionEnds(w)
    \/ \E w \in 1..NumRecorders : ReadMetric(w)
    \/ \E w \in 1..NumRecorders : WriteMetric(w)
    \/ ResetMetrics

(***************************************************************************)
(* monitoring.SystemHealthMonitor: the two probes.  Times are in tenths of *)
(* a second.  An alert is kept by its type.                                *)
(***************************************************************************)

ApiLimit == 100         \* execution_time < 10.0
DbLimit == 50           \* execution_time < 5.0
AlertsMaxlen == 100     \* deque(maxlen=100)
MaxProbes == 3          \* probes run in a behaviour
MaxListed == 2          \* symbols in the answer of the symbol-list call

\* A plausible slip: a plain list in place of the deque.
DequeAppendUnbounded(d, alert) == Append(d, alert)

\* deque.append: the oldest alert leaves a full deque.
DequeAppend(d, alert) ==
    IF Len(d) < AlertsMaxlen THEN Append(d, alert) ELSE Append(Tail(d), alert)

\* What api_client.get_all_futures_symbols() does when the probe calls it:
\* it returns a list of n symbols after the given time, or raises.
ApiCalls ==
    [probe : {"api"}, raised : {FALSE}, n : 0..MaxListed,
     time : {0, ApiLimit - 1, ApiLimit, ApiLimit + 1}]
    \cup [probe : {"api"}, raised : {TRUE}, n : {0}, time : {0}]

\* What the store does when get_statistics queries it: the queries succeed
\* or raise, after the given time.
StoreCalls ==
    [probe : {"db"}, query_ok : BOOLEAN, time : {0, DbLimit - 1, DbLimit, DbLimit + 1}]

\* DatabaseManager.get_statistics: the statistics, or {} when a query raised;
\* it never raises.
GetStatistics(call) ==
    [raised |-> FALSE, stats |-> IF call.query_ok THEN "statistics" ELSE "empty"]

NoCall == [probe |-> "none"]

\* The deque after earlier probes: empty, one short of full, or full.
EarlierAlerts ==
    {[n \in 1..k |-> IF n % 2 = 1 THEN "API_ERROR" ELSE "DB_HEALTH"] :
        k \in {0, AlertsMaxlen - 1, AlertsMaxlen}}

HealthIdle ==
    /\ health_status = [api_connectivity |-> TRUE, database_connectivity |-> TRUE]
    /\ alerts = <<>>
    /\ probes = 0
    /\ probe_call = NoCall
    /\ probe_ret = TRUE

HealthInit ==
    /\ health_status = [api_connectivity |-> TRUE, database_connectivity |-> TRUE]
    /\ alerts \in EarlierAlerts
    /\ probes = 0
    /\ probe_call = NoCall
    /\ probe_ret = TRUE

\* The mutant of ApiIsHealthy: a call of exactly ten seconds passes.
ApiIsHealthyInclusive(call) == call.n > 0 /\ call.time <= ApiLimit

\* is_healthy = len(symbols) > 0 and execution_time < 10.0
ApiIsHealthy(call) == call.n > 0 /\ call.time < ApiLimit

\* is_healthy = execution_time < 5.0
DbIsHealthy(call) == call.time < DbLimit

\* check_api_health(api_client)
CheckApiHealth ==
    /\ probes < MaxProbes
    /\ \E call \in ApiCalls :
        /\ probe_call' = call
        /\ IF call.raised
           THEN /\ health_status' = [health_status EXCEPT !.api_connectivity = FALSE]
                /\ alerts' = DequeAppend(alerts, "API_ERROR")
                /\ probe_ret' = FALSE
           ELSE /\ health_status' =
                       [health_status EXCEPT !.api_connectivity = ApiIsHealthy(call)]
                /\ alerts' = IF ApiIsHealthy(call) THEN alerts
                             ELSE DequeAppend(alerts, "API_HEALTH")
                /\ probe_ret' = ApiIsHealthy(call)
    /\ probes' = probes + 1
    /\ UNCHANGED <<cls_vars, cache_vars, acq_vars, eval_vars, ana_vars, rep_vars, list_vars,
                   key_vars, ind_vars, metric_vars, wrap_vars>>

\* check_database_health(db_manager), db_manager being the DatabaseManager
CheckDatabaseHealth ==
    /\ probes < MaxProbes
    /\ \E call \in StoreCalls :
        /\ probe_call' = call
        /\ IF GetStatistics(call).raised
           THEN /\ health_status' = [health_status EXCEPT !.database_connectivity = FALSE]
                /\ alerts' = DequeAppend(alerts, "DB_ERROR")
                /\ probe_ret' = FALSE
           ELSE /\ health_status' =
                       [health_status EXCEPT !.database_connectivity = DbIsHealthy(call)]
                /\ alerts' = IF DbIsHealthy(call) THEN alerts
                             ELSE DequeAppend(alerts, "DB_HEALTH")
                /\ probe_ret' = DbIsHealthy(call)
    /\ probes' = probes + 1
    /\ UNCHANGED <<cls_vars, cache_vars, acq_vars, eval_vars, ana_vars, rep_vars, list_vars,
                   key_vars, ind_vars, metric_vars, wrap_vars>>

HealthNext == CheckApiHealth \/ CheckDatabaseHealth

(***************************************************************************)
(* Specifications, one per component.                                      *)
(***************************************************************************)
InitClassify == ClsInit /\ CacheIdle /\ PipelineIdle /\ AnaIdle /\ RepIdle /\ ListIdle /\ KeyIdle
    /\ HealthIdle /\ IndIdle /\ MetricIdle /\ WrapIdle

SpecClassify == InitClassify /\ [][ClsNext]_vars

InitCache == CacheInit /\ ClsIdle /\ PipelineIdle /\ AnaIdle /\ RepIdle /\ ListIdle /\ KeyIdle
    /\ HealthIdle /\ IndIdle /\ MetricIdle /\ WrapIdle

SpecCache == InitCache /\ [][CacheNext]_vars

InitPipeline == PipelineInit /\ ClsIdle /\ CacheIdle /\ AnaIdle /\ RepIdle /\ ListIdle /\ KeyIdle
    /\ HealthIdle /\ IndIdle /\ MetricIdle /\ WrapIdle

SpecPipeline == InitPipeline /\ [][PipelineNext]_vars

\* The pipeline when every call that can go on does go on: the listing request
\* returns, a free worker takes the next queued task, every request of a
\* running task returns or times out (requests.get(..., timeout=5)), and the
\* with-block ends once every future is done.
PipelineFairness ==
    /\ WF_vars(\E ok \in BOOLEAN : GetAllFuturesSymbols(ok))
    /\ WF_vars(\E i \in DOMAIN task : StartTask(i))
    /\ WF_vars(\E i \in DOMAIN task : CompleteTask(i))
    /\ WF_vars(ReturnFuturesData)

InitPipelineLive == PipelineLiveInit /\ ClsIdle /\ CacheIdle /\ AnaIdle /\ RepIdle /\ ListIdle /\ KeyIdle
    /\ HealthIdle /\ IndIdle /\ MetricIdle /\ WrapIdle

SpecPipelineLive == InitPipelineLive /\ [][PipelineNext]_vars /\ PipelineFairness

InitAnalyze == AnaInit /\ ClsIdle /\ CacheIdle /\ PipelineIdle /\ RepIdle /\ ListIdle /\ KeyIdle
    /\ HealthIdle /\ IndIdle /\ MetricIdle /\ WrapIdle

SpecAnalyze == InitAnalyze /\ [][AnaNext]_vars

InitRepeat == RepInit /\ CacheInit /\ ClsIdle /\ PipelineIdle /\ AnaIdle /\ ListIdle /\ KeyIdle
    /\ HealthIdle /\ IndIdle /\ MetricIdle /\ WrapIdle

SpecRepeat == InitRepeat /\ [][RepNext]_vars

InitListing ==
    ListInit /\ CacheIdle /\ ClsIdle /\ PipelineIdle /\ AnaIdle /\ RepIdle /\ KeyIdle
    /\ HealthIdle /\ IndIdle /\ MetricIdle /\ WrapIdle

SpecListing == InitListing /\ [][ListNext]_vars

InitKey ==
    KeyInit /\ CacheIdle /\ ClsIdle /\ PipelineIdle /\ AnaIdle /\ RepIdle /\ ListIdle
    /\ HealthIdle /\ IndIdle /\ MetricIdle /\ WrapIdle

SpecKey == InitKey /\ [][KeyNext]_vars

InitHealth ==
    HealthInit /\ CacheIdle /\ ClsIdle /\ PipelineIdle /\ AnaIdle /\ RepIdle /\ ListIdle
    /\ KeyIdle /\ IndIdle /\ MetricIdle /\ WrapIdle

SpecHealth == InitHealth /\ [][HealthNext]_vars

InitIndicators ==
    IndInit /\ CacheIdle /\ ClsIdle /\ PipelineIdle /\ AnaIdle /\ RepIdle /\ ListIdle
    /\ KeyIdle /\ HealthIdle /\ MetricIdle /\ WrapIdle

SpecIndicators == InitIndicators /\ [][IndNext]_vars

InitMetrics ==
    MetricInit /\ CacheIdle /\ ClsIdle /\ PipelineIdle /\ AnaIdle /\ RepIdle /\ ListIdle
    /\ KeyIdle /\ HealthIdle /\ IndIdle /\ WrapIdle

SpecMetrics == InitMetrics /\ [][MetricNext]_vars

InitWrapper ==
    WrapInit /\ CacheInit /\ ClsIdle /\ PipelineIdle /\ AnaIdle /\ RepIdle /\ ListIdle
    /\ KeyIdle /\ HealthIdle /\ IndIdle /\ MetricIdle

SpecWrapper == InitWrapper /\ [][WrapNext]_vars

(***************************************************************************)
(* Claims about the Signal Classifier, checked under SpecClassify.         *)
(***************************************************************************)
CallArgsPrecision ==
    CalculateSignalPrecision(cls_args.z_score, cls_args.rsi,
                             cls_args.macd_histogram, cls_args.volume_ratio)

\* The spec's severity ordering WEAK < MODERATE < STRONG.
StrengthRank(s) ==
    CASE s = "WEAK" -> 1 [] s = "MODERATE" -> 2 [] s = "STRONG" -> 3 [] OTHER -> 0

\* C7: generate_signal returns None whenever the computed precision is below 60,
\* for every argument combination, and every signal it returns carries a
\* precision between 60 and 100.
C7_PrecisionGate ==
    cls_pc = "returned" =>
        /\ (CallArgsPrecision < 600 => cls_result = NoSignal)
        /\ (cls_result # NoSignal =>
                /\ cls_result.precision >= 600
                /\ cls_result.precision <= 1000
                /\ cls_result.precision = CallArgsPrecision)

\* C7 witness: a call whose computed precision is below 60 has returned None.
C7_Witness ==
    /\ cls_pc = "returned"
    /\ CallArgsPrecision < 600
    /\ cls_args.z_score = 50
    /\ cls_args.macd_histogram = 10
    /\ cls_result = NoSignal

\* C8: with z_score beyond +2.0 the direction is SELL and beyond -2.0 it is BUY
\* whatever rsi and macd_histogram are (changing them with z_score and
\* volume_ratio fixed never changes the direction); RSI decides only when the
\* z-score rule did not fire, and the MACD histogram only when neither did.
C8_DirectionPrecedence ==
    cls_pc = "returned" =>
        LET z == cls_args.z_score
            r == cls_args.rsi
            m == cls_args.macd_histogram
            zFires == z > Z_SCORE_THRESHOLD \/ z < -Z_SCORE_THRESHOLD
            rsiFires == r > RSI_OVERBOUGHT \/ r < RSI_OVERSOLD
        IN  /\ (zFires =>
                   /\ cls_result # NoSignal
                   /\ cls_result.direction = IF z > Z_SCORE_THRESHOLD THEN "SELL" ELSE "BUY"
                   /\ \A r2 \in RsiGrid, m2 \in MacdGrid :
                        LET other == GenerateSignal(z, r2, m2, cls_args.volume_ratio)
                        IN  /\ other # NoSignal
                            /\ other.direction = cls_result.direction)
            /\ (~zFires /\ rsiFires /\ cls_result # NoSignal =>
                   cls_result.direction = IF r > RSI_OVERBOUGHT THEN "SELL" ELSE "BUY")
            /\ (~zFires /\ ~rsiFires /\ cls_result # NoSignal =>
                   /\ m < -10 \/ m > 10
                   /\ cls_result.direction = IF m < -10 THEN "SELL" ELSE "BUY")

\* C8 witness: z_score above the threshold while RSI is oversold and the
\* histogram is positive (both would say BUY): the signal returned is SELL.
C8_Witness ==
    /\ cls_pc = "returned"
    /\ cls_args.z_score > Z_SCORE_THRESHOLD
    /\ cls_args.rsi < RSI_OVERSOLD
    /\ cls_args.macd_histogram > 10
    /\ cls_result.direction = "SELL"

\* C9: for fixed z_score, rsi and macd_histogram the strength is non-decreasing
\* in volume_ratio under WEAK < MODERATE < STRONG: a call at any larger ratio
\* returns a signal whenever this call did, of at least this call's strength.
C9_StrengthMonotonicInVolume ==
    cls_pc = "returned" /\ cls_result # NoSignal =>
        \A v \in VolGrid :
            v >= cls_args.volume_ratio =>
                LET higher == GenerateSignal(cls_args.z_score, cls_args.rsi,
                                             cls_args.macd_histogram, v)
                IN  /\ higher # NoSignal
                    /\ StrengthRank(higher.strength) >= StrengthRank(cls_result.strength)

\* C9 witness: a WEAK signal at ratio 1.0 whose arguments give MODERATE at 2.0.
C9_Witness ==
    /\ cls_pc = "returned"
    /\ cls_args.volume_ratio = 100
    /\ cls_result.strength = "WEAK"
    /\ GenerateSignal(cls_args.z_score, cls_args.rsi,
                      cls_args.macd_histogram, 200).strength = "MODERATE"


\* The tier a value falls in: the points of the first bound it passes, else 0.
RsiTier(rsi) ==
    CASE rsi < 2500 \/ rsi > 7500 -> 200
      [] ~(rsi < 2500 \/ rsi > 7500) /\ (rsi < 3000 \/ rsi > 7000) -> 150
      [] ~(rsi < 3000 \/ rsi > 7000) /\ (rsi < 4000 \/ rsi > 6000) -> 100
      [] OTHER -> 0

MacdTier(hist) ==
    CASE Abs(hist) > 20 -> 150
      [] Abs(hist) <= 20 /\ Abs(hist) > 10 -> 100
      [] OTHER -> 0

VolumeTier(ratio) ==
    CASE ratio > 150 -> 150
      [] ratio <= 150 /\ ratio > 120 -> 100
      [] OTHER -> 0

\* 50 + min(|z_score| / 3, 1) * 30 + the three tiers, in tenths of a point.
PrecisionSum ==
    500 + (30 * Min(10 * Abs(cls_args.z_score), 3000)) \div 300
        + RsiTier(cls_args.rsi) + MacdTier(cls_args.macd_histogram)
        + VolumeTier(cls_args.volume_ratio)

\* C17: the precision score is min(100, 50 + min(|z_score| / 3, 1) * 30 + RSI
\* tier + MACD tier + volume tier), it is never below 50 nor above 100, and it
\* is the precision a returned signal carries.
C17_PrecisionFormula ==
    cls_pc = "returned" =>
        /\ CallArgsPrecision = (IF PrecisionSum > 1000 THEN 1000 ELSE PrecisionSum)
        /\ CallArgsPrecision >= 500
        /\ CallArgsPrecision <= 1000
        /\ (cls_result # NoSignal => cls_result.precision = CallArgsPrecision)

\* C17 witness: a returned signal whose contributions add up to more than 100
\* (z-score 30, RSI 20, MACD 15 and volume 15 on top of 50) carries 100.
C17_Witness ==
    /\ cls_pc = "returned"
    /\ PrecisionSum = 1300
    /\ cls_result # NoSignal
    /\ cls_result.precision = 1000

\* RSI confirms the returned direction beyond its threshold, or the sign of the
\* MACD histogram agrees with it.
Confirmed ==
    \/ cls_args.rsi > 7000 /\ cls_result.direction = "SELL"
    \/ cls_args.rsi < 3000 /\ cls_result.direction = "BUY"
    \/ cls_args.macd_histogram > 0 /\ cls_result.direction = "BUY"
    \/ cls_args.macd_histogram < 0 /\ cls_result.direction = "SELL"

\* C18: the strength of a returned signal is WEAK raised to STRONG when RSI
\* confirms the direction or the MACD histogram sign agrees with it; a
\* volume_ratio above 1.5 then raises it by exactly one tier, leaving STRONG as
\* it is, and a volume_ratio of 1.5 or less leaves it unchanged.
C18_StrengthEscalation ==
    cls_pc = "returned" /\ cls_result # NoSignal =>
        LET before == IF Confirmed THEN 3 ELSE 1
        IN  StrengthRank(cls_result.strength) =
                IF cls_args.volume_ratio > 150 THEN Min(before + 1, 3) ELSE before

\* C18 witness: a SELL that neither RSI nor the MACD histogram confirms, at a
\* volume_ratio just above 1.5, is returned MODERATE.
C18_Witness ==
    /\ cls_pc = "returned"
    /\ cls_result.direction = "SELL"
    /\ ~Confirmed
    /\ cls_args.volume_ratio = 151
    /\ cls_result.strength = "MODERATE"

\* The direction rules on the call's arguments.
ZRuleFires == cls_args.z_score > 200 \/ cls_args.z_score < -200

RsiRuleFires == cls_args.rsi > 7000 \/ cls_args.rsi < 3000

MacdRuleFires == cls_args.macd_histogram > 10 \/ cls_args.macd_histogram < -10

\* C27: the precision gate never suppresses a signal.  Whenever one of the
\* three direction rules fires the computed precision is at least 60, and
\* generate_signal returns None exactly when no direction rule fires.
C27_GateNeverSuppresses ==
    cls_pc = "returned" =>
        /\ (ZRuleFires \/ RsiRuleFires \/ MacdRuleFires => CallArgsPrecision >= 600)
        /\ (cls_result = NoSignal <=> ~(ZRuleFires \/ RsiRuleFires \/ MacdRuleFires))

\* C27 witness: only the MACD rule fires, by the smallest histogram that does,
\* with z_score 0, a neutral RSI and a low volume; the signal is returned with
\* precision exactly 60.
C27_Witness ==
    /\ cls_pc = "returned"
    /\ ~ZRuleFires /\ ~RsiRuleFires /\ MacdRuleFires
    /\ cls_args.z_score = 0
    /\ cls_args.macd_histogram = 11
    /\ cls_result # NoSignal
    /\ cls_result.precision = 600

\* C28: a signal whose direction was decided by the RSI rule or by the MACD
\* rule is STRONG; WEAK or MODERATE occurs only when the z-score rule decided
\* the direction and neither RSI nor the histogram sign confirms it, and then
\* the strength is MODERATE exactly when volume_ratio > 1.5.
C28_OnlyZDecidedBelowStrong ==
    cls_pc = "returned" /\ cls_result # NoSignal =>
        /\ (~ZRuleFires => cls_result.strength = "STRONG")
        /\ (cls_result.strength # "STRONG" =>
               /\ ZRuleFires
               /\ ~Confirmed
               /\ (cls_result.strength = "MODERATE" <=> cls_args.volume_ratio > 150)
               /\ cls_result.strength \in {"WEAK", "MODERATE"})
        /\ (ZRuleFires /\ ~Confirmed => cls_result.strength # "STRONG")

\* C28 witness: the RSI rule decided SELL (z-score within its threshold) while
\* the histogram is positive and the volume is low; the signal is STRONG.
C28_Witness ==
    /\ cls_pc = "returned"
    /\ ~ZRuleFires
    /\ cls_args.rsi > 7000
    /\ cls_args.macd_histogram > 0
    /\ cls_args.volume_ratio = 100
    /\ cls_result.direction = "SELL"
    /\ cls_result.strength = "STRONG"

(***************************************************************************)
(* Claims about the Series Cache, checked under SpecCache.                 *)
(***************************************************************************)

\* C1: get never returns a stale value.  Every get(key) step, in any state that
\* set/get/clear/clear_expired and the passing of time can produce: when the
\* key's entry is at or past its expiry instant the call returns None and removes
\* the entry from both dicts; when the entry is before its expiry instant the
\* call returns the value of the latest set(key) and leaves the entry in place;
\* when there is no entry the call returns None.
C1_NoStaleRead ==
    [][\A key \in Keys :
         CacheGet(key) =>
            IF key \in DOMAIN timeouts /\ now >= timeouts[key]
            THEN /\ cache_ret'.value = None
                 /\ key \notin DOMAIN cache'
                 /\ key \notin DOMAIN timeouts'
            ELSE IF key \in DOMAIN cache
            THEN /\ cache_ret'.value = last_set[key].value
                 /\ timeouts[key] = last_set[key].expiry
                 /\ key \in DOMAIN cache' /\ cache'[key] = cache[key]
                 /\ key \in DOMAIN timeouts' /\ timeouts'[key] = timeouts[key]
            ELSE cache_ret'.value = None]_vars

\* C1 witness: a get at the very expiry instant of an entry that held a value
\* has returned None and removed the entry.
C1_Witness ==
    /\ cache_ret.op = "get"
    /\ cache_ret.evicted
    /\ cache_ret.value = None
    /\ cache_ret.key \in DOMAIN last_set
    /\ last_set[cache_ret.key].value # None
    /\ now = last_set[cache_ret.key].expiry
    /\ cache_ret.key \notin DOMAIN cache
    /\ cache_ret.key \notin DOMAIN timeouts

\* C21 (as claimed): once the clear-cache endpoint has reported success the
\* cache holds no entries, expired or not.
C21_ClearCacheEvictsAll ==
    cache_ret.op = "clear_cache" /\ cache_ret.success =>
        cache = <<>> /\ timeouts = <<>>

\* What the endpoint does: it leaves no expired entry and keeps every live one.
ClearCacheEvictsExpired ==
    [][ClearCacheRoute =>
        /\ \A k \in DOMAIN timeouts' : now < timeouts'[k]
        /\ \A k \in DOMAIN timeouts : now < timeouts[k] => k \in DOMAIN cache']_vars

\* C25: the cache is never torn.  In every state that get, set, clear,
\* clear_expired, get_stats and the clear-cache endpoint can produce in any
\* order, the keys that have a value are the keys that have an expiry instant,
\* and get_stats reports expired_entries <= total_entries.
C25_NeverTorn ==
    /\ DOMAIN cache = DOMAIN timeouts
    /\ cache_ret.op = "get_stats" =>
          /\ cache_ret.expired_entries <= cache_ret.total_entries
          /\ cache_ret.total_entries = Cardinality(DOMAIN timeouts)

\* C25 witness: get_stats has run on a cache that holds one expired and one
\* live entry.
C25_Witness ==
    /\ cache_ret.op = "get_stats"
    /\ cache_ret.total_entries = 2
    /\ cache_ret.expired_entries = 1
    /\ DOMAIN cache = Keys

(***************************************************************************)
(* Claims about Data Acquisition and the Orchestrator, checked under       *)
(* SpecPipeline.                                                           *)
(***************************************************************************)
SymbolsOf(list) == {list[k].symbol : k \in 1..Len(list)}

\* The listing succeeded, so a batch was submitted.
BatchSubmitted == symbols # <<>>

\* The i-th symbol passes the code's own test: more than 50 candles and a
\* non-zero price.
OwnSuccess(i) == upstream[i].klines > 50 /\ upstream[i].price > 0

\* The symbols the orchestrator owes a decision.
Decided == {i \in 1..Len(upstream) : OwnSuccess(i) /\ upstream[i].verdict # NoSignal}

\* C2: during get_all_futures_data at most 5 _process_symbol_data tasks are in
\* flight at every instant, however many symbols the batch holds.
C2_AtMostFiveInFlight == Cardinality(InFlight) <= 5

\* C2 witness: five tasks in flight while further submitted tasks wait.
C2_Witness ==
    /\ Cardinality(InFlight) = 5
    /\ Cardinality({i \in DOMAIN task : task[i] = "queued"}) >= 2

\* C3 (as claimed): get_all returns an entry for a symbol exactly when its series
\* fetch gave at least 50 candles and its price fetch gave a price.
C3_EntryIffAtLeast50CandlesAndPrice ==
    acq_pc = "returned" /\ BatchSubmitted =>
        \A i \in 1..Len(upstream) :
            i \in SymbolsOf(acq_ret) <=> (upstream[i].klines >= 50 /\ upstream[i].price > 0)

\* C4: a per-symbol failure removes only that symbol.  Whatever the other
\* symbols of the batch answer, get_all returns exactly one entry for every symbol
\* that passes its own test and none for any other, and evaluate_all returns
\* decisions for exactly the passing symbols that have one; in the batch of 10
\* whose 3rd and 7th symbols raise network errors the decisions are for symbols
\* among the other 8.
C4_FailureIsolation ==
    /\ acq_pc = "returned" /\ BatchSubmitted =>
          /\ SymbolsOf(acq_ret) = {i \in 1..Len(upstream) : OwnSuccess(i)}
          /\ Len(acq_ret) = Cardinality(SymbolsOf(acq_ret))
    /\ eval_pc = "returned" /\ BatchSubmitted =>
          /\ SymbolsOf(eval_ret) = Decided
          /\ upstream = WideBatch => SymbolsOf(eval_ret) \subseteq (1..NumSymbols) \ {3, 7}

\* C4 witness: the batch of 10 with network errors at the 3rd and 7th symbols has
\* been evaluated and decisions for the 8 other symbols returned.
C4_Witness ==
    /\ eval_pc = "returned"
    /\ Len(upstream) >= 10
    /\ upstream[3] = NetworkError
    /\ upstream[7] = NetworkError
    /\ SymbolsOf(eval_ret) = (1..Len(upstream)) \ {3, 7}

\* C5: evaluate_all never ends other than by returning a list: a call that has
\* not returned can always take its next step (the last being the sort and
\* return after the loop), and what it returns is one
\* decision for each symbol that succeeded (acquired, and given a decision by
\* analyze_symbol) and nothing else -- the empty list when none succeeded --
\* whichever of the listing, the per-symbol fetches and the saves fail.
C5_AlwaysReturnsSucceeded ==
    /\ eval_pc # "returned" =>
          \/ ENABLED (\/ AnalyzeAllFutures
                      \/ \E ok \in BOOLEAN : GetAllFuturesSymbols(ok)
                      \/ \E i \in DOMAIN task : StartTask(i)
                      \/ \E i \in DOMAIN task : CompleteTask(i)
                      \/ ReturnFuturesData
                      \/ EnterLoop
                      \/ EvaluateNext)
          \/ eval_pc = "loop" /\ eval_i > Len(acq_ret)
    /\ eval_pc = "returned" =>
          /\ SymbolsOf(eval_ret) = IF BatchSubmitted THEN Decided ELSE {}
          /\ Len(eval_ret) = Cardinality(SymbolsOf(eval_ret))
          /\ \A k \in 1..Len(eval_ret) :
                LET v == upstream[eval_ret[k].symbol].verdict
                IN  /\ eval_ret[k].direction = v.direction
                    /\ eval_ret[k].strength = v.strength
                    /\ eval_ret[k].precision = v.precision

\* C5 witness: a call has returned a decision although one symbol's fetch
\* failed and the save of the decision raised.
C5_Witness ==
    /\ eval_pc = "returned"
    /\ Len(upstream) = 2
    /\ upstream[1] = NetworkError
    /\ store_answer[2] = "raised"
    /\ SymbolsOf(eval_ret) = {2}

\* C6: a decision whose save fails (save_signal returns False or raises) is
\* still in the returned sequence, and the loop goes on: every other decision is
\* returned too, and is stored exactly when its own save succeeds.
C6_SaveFailureKeepsDecision ==
    eval_pc = "returned" /\ BatchSubmitted =>
        \A i \in Decided :
            /\ i \in SymbolsOf(eval_ret)
            /\ (store_answer[i] = "saved") <=> (i \in {row.symbol : row \in stored})

\* C6 witness: the save failed for an entry of the loop, its decision was
\* returned without being stored, and the decision of an entry evaluated after
\* it was stored and returned.
C6_Witness ==
    /\ eval_pc = "returned"
    /\ \E k \in 1..Len(acq_ret), m \in 1..Len(acq_ret) :
          /\ k < m
          /\ store_answer[acq_ret[k].symbol] \in {"failed", "raised"}
          /\ acq_ret[k].symbol \in SymbolsOf(eval_ret)
          /\ acq_ret[k].symbol \notin {row.symbol : row \in stored}
          /\ acq_ret[m].symbol \in SymbolsOf(eval_ret)
          /\ acq_ret[m].symbol \in {row.symbol : row \in stored}

\* The place of a strength label in Python's order of strings:
\* "MODERATE" < "STRONG" < "WEAK".
LabelOrder(label) ==
    CASE label = "MODERATE" -> 1 [] label = "STRONG" -> 2 [] label = "WEAK" -> 3

\* C13: the sequence analyze_all_futures returns is sorted descending by
\* (precision, strength), the strength compared as text: precision never rises
\* along the sequence, and within one precision WEAK comes before STRONG and
\* STRONG before MODERATE.
C13_SortedByPrecisionThenLabelText ==
    eval_pc = "returned" =>
        \A k \in 1..(Len(eval_ret) - 1) :
            /\ eval_ret[k].precision >= eval_ret[k + 1].precision
            /\ eval_ret[k].precision = eval_ret[k + 1].precision =>
                  LabelOrder(eval_ret[k].strength) >= LabelOrder(eval_ret[k + 1].strength)

\* C13 witness: a returned sequence in which the precision falls at one place,
\* WEAK is followed by STRONG at one precision and STRONG by MODERATE.
C13_Witness ==
    /\ eval_pc = "returned"
    /\ \E k \in 1..(Len(eval_ret) - 1) : eval_ret[k].precision > eval_ret[k + 1].precision
    /\ \E k \in 1..(Len(eval_ret) - 1) :
          /\ eval_ret[k].precision = eval_ret[k + 1].precision
          /\ eval_ret[k].strength = "WEAK"
          /\ eval_ret[k + 1].strength = "STRONG"
    /\ \E k \in 1..(Len(eval_ret) - 1) :
          /\ eval_ret[k].precision = eval_ret[k + 1].precision
          /\ eval_ret[k].strength = "STRONG"
          /\ eval_ret[k + 1].strength = "MODERATE"


(***************************************************************************)
(* Claims about the Indicator Engine, checked under SpecAnalyze.           *)
(***************************************************************************)

\* A series of exactly 100 candles whose closes are all equal.
FlatHundred ==
    /\ Len(series.close) = 100
    /\ \A t \in 1..Len(series.close) : series.close[t] = series.close[1]

\* C10 (as claimed): for a 100-candle series of equal closes analyze_symbol
\* computes z_score = 0, RSI = 50 and a MACD histogram of 0, generate_signal
\* returns None and no decision is produced.
C10_FlatSeriesNoDecision ==
    ana_pc = "returned" /\ FlatHundred =>
        /\ ana_locals.z_score = 0
        /\ ana_locals.rsi = 5000
        /\ ana_locals.macd_histogram = 0
        /\ ana_result = NoResult

\* C11: for the 60-candle series whose closes fall linearly from 100 to 50 and
\* whose final volume is twice its 20-period average, analyze_symbol returns a
\* decision with direction BUY, strength STRONG and precision at least 60.
C11_FallingSeriesBuyStrong ==
    ana_pc = "returned" /\ series = FallingScenario =>
        /\ ana_result # NoResult
        /\ ana_result.signal = "BUY"
        /\ ana_result.strength = "STRONG"
        /\ ana_result.precision >= 600

\* C11 witness: the call on the falling series has returned, having found the
\* volume ratio 2.0, an RSI below the oversold level and a z-score that did not
\* pass the threshold.
C11_Witness ==
    /\ ana_pc = "returned"
    /\ series = FallingScenario
    /\ ana_locals.volume_ratio = 200
    /\ ana_locals.rsi < RSI_OVERSOLD
    /\ ana_locals.z_score > -Z_SCORE_THRESHOLD
    /\ ana_result.signal = "BUY"

(***************************************************************************)
(* Claims about the cached fetches, checked under SpecRepeat.              *)
(***************************************************************************)

\* In the second call the symbol's series was looked up before the entry the
\* first call left for it expired.
WithinTtl(i) == look_at[2][i] < look_at[1][i] + KlinesTtl

\* C12: two analyze_all_futures calls made within the series TTL against an
\* exchange that did not change compute the same indicator values (z_score,
\* sma, rsi, macd line, signal and histogram, volume_sma, volume_ratio) for
\* every symbol, and the second call has every series the exchange answers
\* from the cache.
C12_IdempotentOnCacheHits ==
    rep_call = 2 /\ ~exch_moved =>
        \A i \in 1..NumRepSymbols :
            WithinTtl(i) =>
                /\ snaps[2][i] = snaps[1][i]
                /\ exch[i].klines # None => from_cache[2][i]

\* C12 witness: the second call, made later than the first and within the TTL,
\* had a series from the cache and computed the first call's indicator values.
C12_Witness ==
    /\ rep_call = 2
    /\ ~exch_moved
    /\ \E i \in 1..NumRepSymbols :
          /\ WithinTtl(i)
          /\ look_at[2][i] > look_at[1][i]
          /\ from_cache[2][i]
          /\ snaps[1][i] # NoSnapshot
          /\ snaps[2][i] = snaps[1][i]

(***************************************************************************)
(* Claims about get_all_futures_symbols, checked under SpecListing.        *)
(***************************************************************************)

\* The place of the first instrument of the listing that carries the name.
FirstPlace(name) ==
    CHOOSE i \in 1..Len(listing.list) :
        /\ listing.list[i] = name
        /\ \A j \in 1..(i - 1) : listing.list[j] # name

\* The returned symbols are well formed: each ends with USDT, starts with none
\* of 1000, TEST, DEMO, MOCK and contains neither TEST nor DEMO; each is a name
\* of the listing; and they come in the order of the listing.
ListedWellFormedInOrder ==
    /\ \A k \in 1..Len(list_ret) :
          /\ EndsWith(list_ret[k], USDT)
          /\ ~StartsWith(list_ret[k], Thousand)
          /\ ~StartsWith(list_ret[k], TEST)
          /\ ~StartsWith(list_ret[k], DEMO)
          /\ ~StartsWith(list_ret[k], MOCK)
          /\ ~Contains(list_ret[k], TEST)
          /\ ~Contains(list_ret[k], DEMO)
          /\ \E i \in 1..Len(listing.list) : listing.list[i] = list_ret[k]
    /\ \A k \in 1..Len(list_ret), m \in 1..Len(list_ret) :
          k < m => FirstPlace(list_ret[k]) <= FirstPlace(list_ret[m])

\* C14 (as claimed): get_all_futures_symbols returns no symbol more than once,
\* also when the listing repeats one; it keeps the order of the listing and
\* returns only well-formed symbols.
C14_ListDeduplicatedFilteredInOrder ==
    list_pc = "returned" =>
        /\ \A k \in 1..Len(list_ret), m \in 1..Len(list_ret) :
              k # m => list_ret[k] # list_ret[m]
        /\ ListedWellFormedInOrder

(***************************************************************************)
(* Claims about the cache key, checked under SpecKey.                      *)
(***************************************************************************)

\* The two calls are the same call: the same function with the same values
\* bound to its parameters.
SameCall ==
    /\ calls[1].func = calls[2].func
    /\ BoundArguments(calls[1]) = BoundArguments(calls[2])

\* C15 (as claimed): two identical calls (the same function, the same argument
\* values, defaults spelled out or not, positional or by keyword) get the same
\* cache key, and two calls that differ in the function or in an argument value
\* get different keys.
C15_KeySameIffSameCall ==
    key_pc = "derived" => (SameCall <=> cache_keys[1] = cache_keys[2])

\* Two calls that differ in the function or in an argument value get different
\* keys (distinct texts being given distinct hashes).
DistinctCallsDistinctKeys ==
    key_pc = "derived" => (cache_keys[1] = cache_keys[2] => SameCall)

\* What evaluate_all returns when the workers complete in the order the
\* symbols were submitted.
ReturnInSubmissionOrder ==
    LET entries == [i \in 1..Len(upstream) |-> ProcessSymbolData(i, upstream[i])]
        kept == SelectSeq(entries, LAMBDA e : e # NoEntry /\ AnalyzeEntry(e) # NoSignal)
    IN  SortDescending([k \in 1..Len(kept) |-> ResultOf(kept[k])])

\* C22 (as claimed): for the same per-symbol acquisition results the sequence
\* evaluate_all returns is the same whatever order the workers complete in,
\* the order of decisions of equal (precision, strength) included.
C22_SameSequenceForEveryCompletionOrder ==
    eval_pc = "returned" /\ BatchSubmitted => eval_ret = ReturnInSubmissionOrder

\* Whatever order the workers complete in, the same decisions are returned.
SameDecisionsForEveryCompletionOrder ==
    eval_pc = "returned" /\ BatchSubmitted =>
        /\ Len(eval_ret) = Len(ReturnInSubmissionOrder)
        /\ {eval_ret[k] : k \in 1..Len(eval_ret)} =
               {ReturnInSubmissionOrder[k] : k \in 1..Len(ReturnInSubmissionOrder)}

\* C26: get_all returns only after every submitted task has finished, and it
\* does return once called; a slow or failed symbol holds only its own worker:
\* while the pool runs, every running task can finish and, when a worker is
\* free, the oldest queued task can start, whatever the other tasks are doing,
\* and every submitted task is eventually done.
C26_ReturnsAfterAllTasks ==
    /\ [](acq_pc = "returned" => \A i \in DOMAIN task : task[i] = "done")
    /\ [](acq_pc = "pool" =>
             \A i \in DOMAIN task :
                 /\ task[i] = "running" => ENABLED CompleteTask(i)
                 /\ (/\ task[i] = "queued"
                     /\ \A j \in 1..(i - 1) : task[j] # "queued"
                     /\ Cardinality(InFlight) < 5) => ENABLED StartTask(i))
    /\ (acq_pc = "listing" ~> acq_pc = "returned")
    /\ (acq_pc = "pool" ~> (acq_pc = "returned" /\ \A i \in DOMAIN task : task[i] = "done"))

\* C26 witness: a batch of seven symbols, two more than the pool is wide, has
\* returned with every task done, its two failed symbols among them, and the
\* five healthy ones collected.
C26_Witness ==
    /\ acq_pc = "returned"
    /\ Len(task) = 7
    /\ \A i \in DOMAIN task : task[i] = "done"
    /\ upstream[3] = NetworkError /\ upstream[6] = NetworkError
    /\ Len(acq_ret) = 5
    /\ acq_ret[1].symbol = 7

(***************************************************************************)
(* Claims about the health probes, checked under SpecHealth.               *)
(***************************************************************************)

\* Exactly one alert was appended in the step: the new alert is the newest
\* and the earlier ones are kept in order, the oldest leaving a full deque.
OneAlertAppended ==
    /\ Len(alerts') >= 1
    /\ LET kept == Len(alerts') - 1
       IN /\ kept = IF Len(alerts) < 100 THEN Len(alerts) ELSE 99
          /\ \A n \in 1..kept : alerts'[n] = alerts[Len(alerts) - kept + n]

\* The step is a run of the named probe.
ProbeRun(probe) == probes' = probes + 1 /\ probe_call'.probe = probe

\* C19: the acquisition probe returns healthy exactly when the symbol-list
\* call returns a non-empty list in under 10 seconds; afterwards
\* api_connectivity equals the returned value; an unhealthy outcome (empty
\* list, slow call or exception) appends exactly one alert and a healthy one
\* appends none.
C19_ApiProbe ==
    [][ProbeRun("api") =>
        /\ probe_ret' = (~probe_call'.raised /\ probe_call'.n >= 1 /\ probe_call'.time <= 99)
        /\ health_status'.api_connectivity = probe_ret'
        /\ IF probe_ret' THEN alerts' = alerts
           ELSE OneAlertAppended /\ alerts'[Len(alerts')] \in {"API_HEALTH", "API_ERROR"}]_vars

\* Witness of C19: the probe found the symbol list unhealthy (empty, slow or
\* raising) with the deque already full, and its alert is the newest.
C19_Witness ==
    /\ probe_call.probe = "api"
    /\ ~probe_ret
    /\ ~health_status.api_connectivity
    /\ probes >= 2
    /\ Len(alerts) = 100
    /\ alerts[100] \in {"API_HEALTH", "API_ERROR"}
    /\ alerts[99] \in {"API_HEALTH", "API_ERROR"}

\* C20 (as claimed): the store probe returns healthy exactly when the store
\* query succeeds in under 5 seconds; when the query fails or takes 5 seconds
\* or more the probe returns unhealthy, sets database_connectivity to false
\* and appends one alert.
C20_StoreProbe ==
    [][ProbeRun("db") =>
        /\ probe_ret' = (probe_call'.query_ok /\ probe_call'.time <= 49)
        /\ ~probe_ret' =>
              /\ ~health_status'.database_connectivity
              /\ OneAlertAppended]_vars

\* What the store probe does: it is unhealthy exactly when get_statistics
\* takes 5 seconds or more, whether or not its queries succeeded; then
\* database_connectivity is false and one alert is appended.
StoreProbeByTimeOnly ==
    [][ProbeRun("db") =>
        /\ probe_ret' = (probe_call'.time <= 49)
        /\ health_status'.database_connectivity = probe_ret'
        /\ IF probe_ret' THEN alerts' = alerts
           ELSE OneAlertAppended /\ alerts'[Len(alerts')] = "DB_HEALTH"]_vars

(***************************************************************************)
(* Claims about single indicator calls, checked under SpecIndicators.      *)
(***************************************************************************)

\* The documented fallback of the called function; for calculate_sma the mean
\* of the closes there are (0.0 for none).
DocumentedFallback ==
    LET closes == ClosesOf(ind_call.candles)
        n == Len(closes)
    IN  CASE ind_call.func = "calculate_z_score" -> <<Num(0)>>
          [] ind_call.func = "calculate_sma" ->
                <<Num(IF n = 0 THEN 0 ELSE (100 * SumTo(closes, n)) \div n)>>
          [] ind_call.func = "calculate_rsi" -> <<Num(5000)>>
          [] ind_call.func = "calculate_macd" -> <<Num(0), Num(0), Num(0)>>
          [] ind_call.func = "calculate_bollinger_bands" -> <<Num(0), Num(0), Num(0)>>
          [] ind_call.func = "calculate_stochastic" -> <<Num(5000), Num(5000)>>
          [] ind_call.func = "calculate_atr" -> <<Num(0)>>

\* Every returned float is a number.
AllDefined == \A i \in 1..Len(ind_ret) : ~ind_ret[i].nan

\* C16 (as claimed): on a series shorter than the period every indicator
\* function returns its documented fallback, and on a series of at least
\* period values it returns defined numbers.
C16_FallbackOrDefinedNumber ==
    ind_pc = "returned" =>
        IF Len(ind_call.candles) < ind_call.period
        THEN ind_ret = DocumentedFallback
        ELSE AllDefined

\* On a series shorter than the period every function returns its fallback.
FallbackWhenShorter ==
    ind_pc = "returned" /\ Len(ind_call.candles) < ind_call.period
        => ind_ret = DocumentedFallback

\* calculate_sma, calculate_rsi, calculate_macd and calculate_atr return
\* defined numbers on every series.
AlwaysDefinedFunctions ==
    ind_pc = "returned"
    /\ ind_call.func \in {"calculate_sma", "calculate_rsi", "calculate_macd", "calculate_atr"}
        => AllDefined

\* C24: the alert buffer is a bounded ring.  After any sequence of probes it
\* holds at most 100 alerts; a probe that appends to a full buffer discards
\* exactly the oldest alert and keeps the others in arrival order, and one that
\* appends to a buffer that is not full discards none.
C24_AlertRing ==
    /\ [](Len(alerts) <= 100)
    /\ [][alerts' # alerts =>
            \E alert \in {"API_HEALTH", "API_ERROR", "DB_HEALTH", "DB_ERROR"} :
                alerts' = (IF Len(alerts) = 100 THEN Tail(alerts) ELSE alerts) \o <<alert>>]_vars

\* C24 witness: three alerts were appended to a buffer that was full; the
\* three oldest are gone, the fourth oldest is now the oldest, and the buffer
\* still holds 100.
C24_Witness ==
    /\ probes = 3
    /\ Len(alerts) = 100
    /\ alerts[1] = "DB_HEALTH"
    /\ alerts[2] = "API_ERROR"
    /\ alerts[97] = "DB_HEALTH"
    /\ alerts[98] = "DB_HEALTH"
    /\ alerts[99] = "API_HEALTH"
    /\ alerts[100] = "DB_HEALTH"

(***************************************************************************)
(* Claims about the PerformanceMonitor, checked under SpecMetrics.         *)
(***************************************************************************)

\* The metric of an operation agrees with the record calls completed for it
\* since the last reset.
MetricAgrees(o) ==
    LET done == recorded.tally[o]
    IN  IF done.calls = 0 THEN o \notin DOMAIN metrics
        ELSE /\ o \in DOMAIN metrics
             /\ metrics[o].count = done.calls
             /\ metrics[o].errors = done.failures
             /\ metrics[o].total_time = done.time
             /\ metrics[o].errors <= metrics[o].count
             /\ metrics[o].min_time <= metrics[o].max_time

\* C23: no update to a metric is lost under any interleaving of record calls.
\* Whenever no thread is inside record_metric, count is the number of record
\* calls made for the operation since the last reset, errors the number of
\* those that failed and total_time the sum of their times, with errors <=
\* count and min_time <= max_time; and count, total_time and errors never
\* decrease except by reset.
C23_NoLostUpdate ==
    /\ [](metrics_lock = 0 => \A o \in Operations : MetricAgrees(o))
    /\ [][\/ metrics' = <<>>
          \/ \A o \in DOMAIN metrics :
                /\ o \in DOMAIN metrics'
                /\ metrics'[o].count >= metrics[o].count
                /\ metrics'[o].total_time >= metrics[o].total_time
                /\ metrics'[o].errors >= metrics[o].errors]_vars

\* C23 witness: three record calls for one operation have completed, one of
\* them a failure, with times 0, 1 and 2, while the other operation has none.
C23_Witness ==
    /\ metrics_lock = 0
    /\ "get_klines_data" \in DOMAIN metrics
    /\ metrics["get_klines_data"] =
           [count |-> 3, total_time |-> 3, min_time |-> 0, max_time |-> 2, errors |-> 1]
    /\ recorded.tally["get_klines_data"].calls = 3

(***************************************************************************)
(* Claims about the cache wrapper under threads, checked under SpecWrapper.*)
(***************************************************************************)

\* C29 (as claimed): a failure result is never served from the cache.  A call
\* that returns a cached result returns neither the empty list of a failed
\* listing nor the None of a failed series fetch, so a call after a failure
\* contacts the upstream again.
C29_FailureNotServedFromCache ==
    \A t \in DOMAIN wrapped :
        wrapped[t].pc = "returned" /\ wrapped[t].hit =>
            wrapped[t].result # FailureResult(wrapped[t].func)

\* A None result is never served from the cache: the call after a failed
\* series fetch contacts the upstream again.
NoneNotServedFromCache ==
    \A t \in DOMAIN wrapped :
        wrapped[t].pc = "returned" /\ wrapped[t].hit => wrapped[t].result # None

\* C30: the wrapper's lookup and its store are separate steps.  A thread whose
\* lookup missed calls the function whatever the other threads are doing, and
\* its store writes its own result and its own expiry instant over whatever
\* entry the key has by then, an entry another thread stored in between
\* included.
C30_LookupAndStoreNotAtomic ==
    [][\A t \in DOMAIN wrapped :
          LET key == KeyOfCall(wrapped[t].func)
              live == key \in DOMAIN cache /\ now < timeouts[key] /\ cache[key] # None
          IN  /\ wrapped[t].pc = "get" /\ wrapped'[t].pc # "get" =>
                    IF live THEN wrapped'[t].pc = "returned" /\ wrapped'[t].result = cache[key]
                    ELSE wrapped'[t].pc = "func"
              /\ wrapped[t].pc = "func" /\ wrapped'[t].pc # "func" =>
                    /\ wrapped'[t].pc = "set"
                    /\ contacts' = contacts + 1
              /\ wrapped[t].pc = "set" /\ wrapped'[t].pc # "set" =>
                    /\ wrapped'[t].pc = "returned"
                    /\ key \in DOMAIN cache' /\ key \in DOMAIN timeouts'
                    /\ cache'[key] = wrapped[t].result
                    /\ timeouts'[key] = now + TtlOf(wrapped[t].func)]_vars

\* C30 witness: two threads made the same call, both missed, both fetched (two
\* contacts, two payloads), and the second store, made later, found the first
\* thread's entry and replaced its value and its expiry instant.
C30_Witness ==
    /\ wrapped[1].pc = "returned" /\ wrapped[2].pc = "returned"
    /\ wrapped[1].func = "get_klines_data" /\ wrapped[2].func = "get_klines_data"
    /\ ~wrapped[1].hit /\ ~wrapped[2].hit
    /\ wrapped[1].fetched /\ wrapped[2].fetched
    /\ contacts = 2
    /\ wrapped[1].result = 2 /\ wrapped[2].result = 1
    /\ wrapped[1].found
    /\ wrapped[1].expiry > wrapped[2].expiry
    /\ cache[KeyOfCall("get_klines_data")] = 2
    /\ timeouts[KeyOfCall("get_klines_data")] = wrapped[1].expiry

=============================================================================
